---- MODULE Spec2Model ----
(***************************************************************************)
(* Motion-control core of the microplot two-axis plotter (Cartesian        *)
(* machine): stepper driver, move_to planner, G-code dispatcher, HTTP      *)
(* callbacks and file reader, as one cooperative state machine.            *)
(*                                                                         *)
(* Scheduling: uasyncio is single-threaded and cooperative.  The           *)
(* dispatcher task is modelled in small steps with a program counter;     *)
(* the labels in Suspended are its await points.  Another task or an HTTP  *)
(* callback runs only while every task is at an await point.  The          *)
(* hardware inputs (limit switch pins, the clock) change at any time.      *)
(*                                                                         *)
(* Lengths are whole units; int() is truncation toward zero of the exact   *)
(* quotient (floating-point rounding is not modelled).                     *)
(***************************************************************************)
EXTENDS Integers, Sequences, FiniteSets, TLC

\* ---------------------------------------------------------------- bounds
\* Configuration values of the modelled machine, scaled down from the
\* shipped configuration so that the state space stays finite and small.
StepsPerRevolution == 3
UnitPerRevolution == 2
BacklashStepsPrimary == 1
BacklashStepsSecondary == 1
XMax == 2
YMax == 2
\* Largest coordinate a caller or a G-code line names (beyond XMax, YMax).
MaxCoord == 3
\* Position counters are kept within -HomeBound .. PosBound by the guards.
PosBound == 4
HomeBound == 2
\* Servo duty range of the pen (min_pen_duty, max_pen_duty).
MinPenDuty == 0
MaxPenDuty == 1
\* Capacity of gcode_queue (max_queue_length), scaled down.
MaxQueueLength == 2
\* Idle timeout in seconds (active_timeout), scaled down.
ActiveTimeout == 0
\* The clock stops at MaxTime; at most MaxCommands commands are ever queued.
MaxTime == 1
MaxCommands == 4
\* Commands queued by a client while the startup and G28 homing are studied.
MaxHomeCommands == 2
\* Queue capacity and number of commands queued where the tiling is
\* followed: the largest grid queues 3 * 3 + 2 commands at once.
CsQueueLength == 11
MaxCsCommands == 5
\* Commands queued by tiling requests alone: a 3 x 3 grid, then a 1 x 1 grid.
MaxTilingCommands == 14
\* Commands queued while file sessions are studied: a session over two
\* workspaces and one more command.
MaxPlayCommands == 6
\* Commands queued while the coordinate transformation is studied.
MaxGcodeCommands == 4
\* Commands a client queues in the workspace-measurement specification.
MaxMeasureCommands == 1
\* Direct move_to calls made on the bare machine.
MaxCalls == 3
\* Lines of the sketch file a session plays.
SketchLen == 1
\* Distance of the eject position from y_max, scaled down.
EjectMargin == 1

\* acceleration_rate is 1 / AccelDen; junction factors are k / JfDen;
\* dx and dy of the moves that drive the speed controllers are at most
\* MaxSpeedSteps.
AccelDen == 2
JfDen == 2
MaxSpeedSteps == 3

\* ------------------------------------------------------------- constants
NPins == 4
DIR_ANTICLOCKWISE == 0
DIR_CLOCKWISE == 1
None == -1
\* The empty request body b"".
EmptyBody == -2

dir_forward == DIR_ANTICLOCKWISE
dir_backward == DIR_CLOCKWISE

\* Grid sizes the tiling accepts: range(1, 4).
GridSizes == 1..3

\* Coordinates, offsets and scale factors are kept as integers in units of
\* 1 / CoordDen, so that a tile spacing (a boundary divided by a grid size),
\* a scale factor 1 / n and the position of a step counter
\* (unit_per_revolution / steps_per_revolution per step) are all exact.
CoordDen == 2 * 3 * StepsPerRevolution
Fine(u) == u * CoordDen

\* MachineBase.__init__: global_boundaries from the configured x_min ..
\* y_max.
ConfiguredBoundaries == [x_min |-> 0, y_min |-> 0, x_max |-> Fine(XMax), y_max |-> Fine(YMax)]

\* sorted(cs_coordinates.keys()): G53, G54 .. G59, G59.1 .. G59.3 by index;
\* index 0 is the machine coordinate system G53.
CsNames == 0..9

\* positioning.POS_ABSOLUTE, positioning.POS_RELATIVE
POS_ABSOLUTE == 1
POS_RELATIVE == 2

\* ------------------------------------------------------------- variables
VARIABLES
    \* MachineBase live state
    current_pos_primary, current_pos_secondary,
    current_step_primary, current_step_secondary,
    dir_primary, dir_secondary,
    primary_pins, secondary_pins,
    activated,
    user_boundaries, reject_oob, max_queue_length, global_boundaries,
    \* hardware inputs
    primary_limit_pin, secondary_limit_pin,
    \* the stepping task: position, return labels, handler context, pending
    \* exception, and the frames of step_*, move_to
    pc, stack, ctx, exc, st, mv,
    \* history of the running move_to: requested target, start position,
    \* signed differential, regular steps issued per axis
    mvh,
    \* frames of position_pen, home_cycle and measure_workspace
    pen, hm, mw,
    \* dispatcher and shared machine state
    gcode_queue, machine_paused, paused, additional_info, servo_duty,
    current_cs, cs_coordinates, cs_scaling, positioning, last_command_ts, command,
    \* tiling state of the HTTP interface
    tile_grid_size, current_tile_idx,
    \* the two persistent speed controllers, and the move_to that drives
    \* them
    primary_speed_controller, secondary_speed_controller, sf,
    \* the file session task
    session,
    \* the clock (time()), and the number of commands queued so far
    now, next_id

axes == <<current_pos_primary, current_pos_secondary,
          current_step_primary, current_step_secondary,
          dir_primary, dir_secondary, primary_pins, secondary_pins>>
limits == <<primary_limit_pin, secondary_limit_pin>>
config == <<user_boundaries, reject_oob, max_queue_length, global_boundaries>>
task == <<pc, stack, ctx, exc>>
frames == <<st, mv, mvh>>
penv == <<pen, servo_duty>>
queuev == <<gcode_queue, next_id>>
flags == <<machine_paused, paused>>
tiles == <<tile_grid_size, current_tile_idx>>
csys == <<current_cs, cs_coordinates, cs_scaling>>
speed == <<primary_speed_controller, secondary_speed_controller, sf>>
disp == <<additional_info, csys, positioning, last_command_ts, command>>
sys == <<penv, hm, mw, queuev, flags, tiles, speed, disp, session, now>>
vars == <<axes, activated, config, limits, task, frames, sys>>

\* --------------------------------------------------------------- helpers
Abs(n) == IF n < 0 THEN -n ELSE n
Max(a, b) == IF a >= b THEN a ELSE b
Min(a, b) == IF a <= b THEN a ELSE b

\* int(a / b) for b > 0: truncation toward zero.
Trunc(a, b) == IF a >= 0 THEN a \div b ELSE -((-a) \div b)

\* int(f"{v:04b}"[-i-1]) for pin i: bit i of the phase value.
PinValues(v) == [i \in 0..(NPins - 1) |-> (v \div (2 ^ i)) % 2]

AllPinsOn == [i \in 0..(NPins - 1) |-> 1]
AllPinsOff == [i \in 0..(NPins - 1) |-> 0]
NoSession == [rpc |-> "none", left |-> 0, ws |-> <<>>, wi |-> 0]

\* Frame of step_primary / step_secondary: the axis, is_backward, the
\* backlash transitions still to make; and, as history, the phase, position
\* counter and last direction of the axis when the call was entered.
NoFrameSt == [axis |-> "p", bw |-> FALSE, bl |-> 0, ph0 |-> 0, pos0 |-> 0, dir0 |-> 0]
\* A junction factor num / sqrt(den2), with num >= 0: the clamped cosine of
\* the angle between two segments, kept exact.
JfZero == [num |-> 0, den2 |-> 1]
JfOne == [num |-> 1, den2 |-> 1]

NoFrameMv == [x |-> 0, y |-> 0, safe |-> TRUE, junction_factor |-> JfZero,
              dx |-> 0, dy |-> 0,
              sx |-> 1, sy |-> 1, err |-> 0, e2 |-> 0,
              remaining_x |-> 0, remaining_y |-> 0, x_dominant |-> TRUE]
NoHistMv == [x0 |-> 0, y0 |-> 0, pos_p |-> 0, pos_s |-> 0, dx |-> 0, dy |-> 0, n_p |-> 0, n_s |-> 0,
             n_it |-> 0]

\* Labels at which the task is suspended in an await.
Suspended == {"idle", "step_bl_sleep", "mv_sleep", "pen_sleep", "home1_sleep",
              "home2_sleep", "mwf_sleep", "mwb_sleep", "ctl_sleep", "start"}
\* Labels at which the task has ended.
Ended == {"exited", "dead"}

\* ------------------------------------------------------- stepper driver
\* One phase transition backward: halve, or wrap 1 -> 2^(NPins-1).
PhaseBackward(cur) == IF cur > 1 THEN cur \div 2 ELSE 2 ^ (NPins - 1)
\* One phase transition forward: double.
PhaseForward(cur) == cur * 2
PhaseNoWrap(cur) == cur
\* if current_step == 2 ** len(pins): current_step = 1
PhaseWrap(cur) == IF cur = 2 ^ NPins THEN 1 ELSE cur

PhaseStep(cur, bw) == PhaseWrap(IF bw THEN PhaseBackward(cur) ELSE PhaseForward(cur))

BacklashSteps(axis) == IF axis = "p" THEN BacklashStepsPrimary ELSE BacklashStepsSecondary
DirOf(axis) == IF axis = "p" THEN dir_primary ELSE dir_secondary
DirValue(bw) == IF bw THEN DIR_CLOCKWISE ELSE DIR_ANTICLOCKWISE

NeedsBacklashAny(axis, bw) == BacklashSteps(axis) # 0
\* The two backlash conditions of step_primary / step_secondary.
NeedsBacklash(axis, bw) ==
    /\ BacklashSteps(axis) # 0
    /\ \/ bw /\ DirOf(axis) = dir_forward
       \/ ~bw /\ DirOf(axis) = dir_backward

\* step_primary / step_secondary entered with frame st: decide on backlash.
StepEnter ==
    /\ pc = "step_enter"
    /\ st' = [st EXCEPT
                !.bl = IF NeedsBacklash(st.axis, st.bw)
                         THEN BacklashSteps(st.axis) ELSE 0,
                !.ph0 = IF st.axis = "p" THEN current_step_primary
                                         ELSE current_step_secondary,
                !.pos0 = IF st.axis = "p" THEN current_pos_primary
                                          ELSE current_pos_secondary,
                !.dir0 = DirOf(st.axis)]
    /\ pc' = IF NeedsBacklash(st.axis, st.bw) THEN "step_bl" ELSE "step_do"
    /\ UNCHANGED <<axes, activated, config, limits, sys, stack, ctx, exc, mv, mvh>>

\* One backlash transition: phase changes, pins are written, the position
\* counter is not touched; then await asleep(step_delay_ms_rapid / 1000).
StepBacklash ==
    /\ pc = "step_bl"
    /\ IF st.bl > 0
         THEN /\ IF st.axis = "p"
                   THEN /\ current_step_primary' = PhaseStep(current_step_primary, st.bw)
                        /\ primary_pins' = PinValues(current_step_primary')
                        /\ UNCHANGED <<current_step_secondary, secondary_pins>>
                   ELSE /\ current_step_secondary' = PhaseStep(current_step_secondary, st.bw)
                        /\ secondary_pins' = PinValues(current_step_secondary')
                        /\ UNCHANGED <<current_step_primary, primary_pins>>
              /\ st' = [st EXCEPT !.bl = st.bl - 1]
              /\ pc' = "step_bl_sleep"
         ELSE /\ pc' = "step_do"
              /\ UNCHANGED <<st, current_step_primary, current_step_secondary,
                             primary_pins, secondary_pins>>
    /\ UNCHANGED <<current_pos_primary, current_pos_secondary, dir_primary,
                   dir_secondary, activated, config, limits, sys, stack, ctx, exc, mv, mvh>>

\* The sleep after a backlash transition is over.
StepBacklashWake ==
    /\ pc = "step_bl_sleep"
    /\ pc' = "step_bl"
    /\ UNCHANGED <<axes, activated, config, limits, sys, stack, ctx, exc, frames>>

\* The step was called by move_to's loop.
InMove == stack # <<>> /\ Head(stack) \in {"mv_x_done", "mv_y_done"}

\* The regular step: record the direction, one phase transition, the
\* position counter +-1, wrap, write the pins; return to the caller.
StepRegular ==
    /\ pc = "step_do"
    /\ IF st.axis = "p"
         THEN /\ current_pos_primary + (IF st.bw THEN -1 ELSE 1) \in (-HomeBound)..PosBound
              /\ dir_primary' = DirValue(st.bw)
              /\ current_step_primary' = PhaseStep(current_step_primary, st.bw)
              /\ current_pos_primary' = current_pos_primary + (IF st.bw THEN -1 ELSE 1)
              /\ primary_pins' = PinValues(current_step_primary')
              /\ mvh' = IF InMove THEN [mvh EXCEPT !.n_p = mvh.n_p + 1] ELSE mvh
              /\ UNCHANGED <<dir_secondary, current_step_secondary,
                             current_pos_secondary, secondary_pins>>
         ELSE /\ current_pos_secondary + (IF st.bw THEN -1 ELSE 1) \in (-HomeBound)..PosBound
              /\ dir_secondary' = DirValue(st.bw)
              /\ current_step_secondary' = PhaseStep(current_step_secondary, st.bw)
              /\ current_pos_secondary' = current_pos_secondary + (IF st.bw THEN -1 ELSE 1)
              /\ secondary_pins' = PinValues(current_step_secondary')
              /\ mvh' = IF InMove THEN [mvh EXCEPT !.n_s = mvh.n_s + 1] ELSE mvh
              /\ UNCHANGED <<dir_primary, current_step_primary,
                             current_pos_primary, primary_pins>>
    /\ pc' = Head(stack)
    /\ stack' = Tail(stack)
    /\ st' = NoFrameSt
    /\ UNCHANGED <<activated, config, limits, sys, ctx, exc, mv>>

\* ------------------------------------------------------------ boundaries
UserBoundariesSet ==
    /\ user_boundaries.x_min # None
    /\ user_boundaries.y_min # None
    /\ user_boundaries.x_max # None
    /\ user_boundaries.y_max # None

out_of_global_low(x, y) ==
    \/ x < global_boundaries.x_min
    \/ y < global_boundaries.y_min

out_of_global_boundaries(x, y) ==
    \/ x < global_boundaries.x_min
    \/ y < global_boundaries.y_min
    \/ x > global_boundaries.x_max
    \/ y > global_boundaries.y_max

out_of_user_boundaries(x, y) ==
    /\ UserBoundariesSet
    /\ \/ x < user_boundaries.x_min
       \/ y < user_boundaries.y_min
       \/ x > user_boundaries.x_max
       \/ y > user_boundaries.y_max

\* max(lo, min(hi, v))
Clamp(lo, hi, v) == Max(lo, Min(hi, v))

\* The target after move_to's boundary enforcement (reject_oob = false).
ClampedTarget(x, y) ==
    IF UserBoundariesSet
      THEN <<Clamp(user_boundaries.x_min, user_boundaries.x_max, x),
             Clamp(user_boundaries.y_min, user_boundaries.y_max, y)>>
      ELSE <<Clamp(global_boundaries.x_min, global_boundaries.x_max, x),
             Clamp(global_boundaries.y_min, global_boundaries.y_max, y)>>

\* CartesianPlotter.get_step_differential
get_step_differential(x, y) ==
    <<Trunc(x * StepsPerRevolution - current_pos_primary * Fine(UnitPerRevolution),
            Fine(UnitPerRevolution)),
      Trunc(y * StepsPerRevolution - current_pos_secondary * Fine(UnitPerRevolution),
            Fine(UnitPerRevolution))>>


\* ------------------------------------------------------ exceptions, calls
LimitSwitchException == "LimitSwitchException"
ValueError == "ValueError"

\* ----------------------------------------------------- MachineBase.move_to
StepSignForward(d) == 1
\* sx = -1 if dx < 0 else 1
StepSign(d) == IF d < 0 THEN -1 ELSE 1

\* Entry of move_to(mv.x, mv.y, safe = mv.safe): boundary enforcement, step
\* differentials, Bresenham setup.
MoveEnter ==
    /\ pc = "mv_enter"
    /\ LET oob == mv.safe /\ (out_of_global_boundaries(mv.x, mv.y)
                              \/ out_of_user_boundaries(mv.x, mv.y))
           t == IF oob THEN ClampedTarget(mv.x, mv.y) ELSE <<mv.x, mv.y>>
           d == get_step_differential(t[1], t[2])
       IN IF oob /\ reject_oob
            THEN /\ pc' = "raise"
                 /\ exc' = ValueError
                 /\ UNCHANGED <<mv, mvh>>
            ELSE /\ mv' = [mv EXCEPT !.x = t[1], !.y = t[2],
                                     !.sx = StepSign(d[1]),
                                     !.sy = StepSign(d[2]),
                                     !.dx = Abs(d[1]), !.dy = Abs(d[2]),
                                     !.err = Abs(d[1]) - Abs(d[2]), !.e2 = 0,
                                     !.remaining_x = Abs(d[1]),
                                     !.remaining_y = Abs(d[2]),
                                     !.x_dominant = (Abs(d[1]) >= Abs(d[2]))]
                 /\ mvh' = [x0 |-> mv.x, y0 |-> mv.y,
                            pos_p |-> current_pos_primary,
                            pos_s |-> current_pos_secondary,
                            dx |-> d[1], dy |-> d[2], n_p |-> 0, n_s |-> 0,
                            n_it |-> 0]
                 /\ pc' = IF d[1] = 0 /\ d[2] = 0 THEN "mv_ret" ELSE "mv_loop"
                 /\ exc' = exc
    /\ UNCHANGED <<axes, activated, config, limits, sys, stack, ctx, st>>

\* Head of the Bresenham loop: loop test, limit switch check, e2 = 2 * err.
MoveLoop ==
    /\ pc = "mv_loop"
    /\ IF mv.remaining_x > 0 \/ mv.remaining_y > 0
         THEN IF mv.safe /\ (primary_limit_pin = 1 \/ secondary_limit_pin = 1)
                THEN /\ pc' = "raise"
                     /\ exc' = LimitSwitchException
                     /\ mv' = mv
                ELSE /\ mv' = [mv EXCEPT !.e2 = 2 * mv.err]
                     /\ pc' = "mv_x"
                     /\ exc' = exc
         ELSE /\ pc' = "mv_ret"
              /\ UNCHANGED <<mv, exc>>
    /\ UNCHANGED <<axes, activated, config, limits, sys, stack, ctx, st, mvh>>

\* The two step decisions of a loop iteration.
StepsPrimary(m) == m.e2 > -m.dy /\ m.remaining_x > 0
StepsSecondaryOnNegative(m) == m.e2 < 0 /\ m.remaining_y > 0
StepsSecondary(m) == m.e2 < m.dx /\ m.remaining_y > 0

\* Step X: if e2 > -dy and remaining_x > 0: await step_primary(sx < 0)
MoveStepX ==
    /\ pc = "mv_x"
    /\ IF StepsPrimary(mv)
         THEN /\ st' = [NoFrameSt EXCEPT !.axis = "p", !.bw = (mv.sx < 0)]
              /\ pc' = "step_enter"
              /\ stack' = <<"mv_x_done">> \o stack
         ELSE /\ pc' = "mv_y"
              /\ UNCHANGED <<st, stack>>
    /\ UNCHANGED <<axes, activated, config, limits, sys, ctx, exc, mv, mvh>>

\* remaining_x -= 1; err -= dy
MoveStepXDone ==
    /\ pc = "mv_x_done"
    /\ mv' = [mv EXCEPT !.remaining_x = mv.remaining_x - 1, !.err = mv.err - mv.dy]
    /\ pc' = "mv_y"
    /\ UNCHANGED <<axes, activated, config, limits, sys, stack, ctx, exc, st, mvh>>

\* Step Y: if e2 < dx and remaining_y > 0: await step_secondary(sy < 0)
MoveStepY ==
    /\ pc = "mv_y"
    /\ IF StepsSecondary(mv)
         THEN /\ st' = [NoFrameSt EXCEPT !.axis = "s", !.bw = (mv.sy < 0)]
              /\ pc' = "step_enter"
              /\ stack' = <<"mv_y_done">> \o stack
         ELSE /\ pc' = "mv_ctl"
              /\ UNCHANGED <<st, stack>>
    /\ UNCHANGED <<axes, activated, config, limits, sys, ctx, exc, mv, mvh>>

\* remaining_y -= 1; err += dx
MoveStepYDone ==
    /\ pc = "mv_y_done"
    /\ mv' = [mv EXCEPT !.remaining_y = mv.remaining_y - 1, !.err = mv.err + mv.dx]
    /\ pc' = "mv_ctl"
    /\ UNCHANGED <<axes, activated, config, limits, sys, stack, ctx, exc, st, mvh>>

\* Speed update of both controllers, then await control() of the dominant
\* one: a loop iteration is complete (counted in the history).
MoveControl ==
    /\ pc = "mv_ctl"
    /\ pc' = "mv_sleep"
    /\ mvh' = [mvh EXCEPT !.n_it = mvh.n_it + 1]
    /\ UNCHANGED <<axes, activated, config, limits, sys, stack, ctx, exc, st, mv>>

\* The dominant controller's sleep is over: next loop iteration.
MoveWake ==
    /\ pc = "mv_sleep"
    /\ pc' = "mv_loop"
    /\ UNCHANGED <<axes, activated, config, limits, sys, stack, ctx, exc, frames>>

\* move_to returns normally to its caller; its frame is discarded.
MoveReturn ==
    /\ pc = "mv_ret"
    /\ pc' = Head(stack)
    /\ stack' = Tail(stack)
    /\ mv' = NoFrameMv
    /\ mvh' = NoHistMv
    /\ UNCHANGED <<axes, activated, config, limits, sys, ctx, exc, st>>


\* --------------------------------------------------------- SpeedController
\* Step delays of the configuration, in units that keep every delay the
\* controllers compute an integer.
DelayUnit == AccelDen * JfDen
step_delay_ms_rapid == 1 * DelayUnit
step_delay_ms_linear == 2 * DelayUnit
step_delay_ms_init == 3 * DelayUnit

\* SpeedController.__init__(target_delay_ms, init_delay_ms, acceleration_rate)
SpeedController(target, init) ==
    [init_delay_ms |-> init, target_delay_ms |-> target,
     current_delay_ms |-> init,
     acceleration_step_ms |-> (init - target) \div AccelDen,
     running |-> FALSE]

\* SpeedController.__enter__ and __exit__: the flag _running.
SpeedCtlEnter(c) == [c EXCEPT !.running = TRUE]
SpeedCtlExitKeeps(c) == c
SpeedCtlExit(c) == [c EXCEPT !.running = FALSE]

\* SpeedController.update(init_delay_ms, target_delay_ms, acceleration_rate)
\* with all three given and init_delay_ms > target_delay_ms: the delays are
\* replaced and the acceleration step recalculated; current_delay_ms is
\* left as the previous move left it.
SpeedCtlUpdate(c, init, target) ==
    [c EXCEPT !.init_delay_ms = init, !.target_delay_ms = target,
              !.acceleration_step_ms = (init - target) \div AccelDen]

\* The same call with init_delay_ms <= target_delay_ms: the delays are
\* replaced, then _recalculate_acceleration_step_ms raises ValueError and
\* the acceleration step stays.
SpeedCtlUpdateFails(c, init, target) ==
    [c EXCEPT !.init_delay_ms = init, !.target_delay_ms = target]

\* junction_delay_ms for the junction factor jf / JfDen (already in 0..1)
junction_delay_ms(c, jf) ==
    c.target_delay_ms
      + ((c.init_delay_ms - c.target_delay_ms) * (JfDen - jf)) \div JfDen

\* SpeedController.update_speed(remaining_steps, junction_factor)
update_speed(c, remaining_steps, jf) ==
    IF \/ c.current_delay_ms < c.target_delay_ms
       \/ junction_delay_ms(c, jf) - c.current_delay_ms
             >= remaining_steps * c.acceleration_step_ms
      THEN [c EXCEPT !.current_delay_ms =
                Min(c.current_delay_ms + c.acceleration_step_ms,
                    junction_delay_ms(c, jf))]
      ELSE IF c.current_delay_ms > c.target_delay_ms
             THEN [c EXCEPT !.current_delay_ms =
                      Max(c.current_delay_ms - c.acceleration_step_ms,
                          c.target_delay_ms)]
             ELSE c

NoFrameSf == [active |-> FALSE, updated |-> FALSE, dx |-> 0, dy |-> 0,
              err |-> 0, remaining_x |-> 0, remaining_y |-> 0, jf |-> 0,
              local |-> FALSE, lowering |-> FALSE,
              ctrl |-> SpeedController(step_delay_ms_linear, step_delay_ms_init)]

\* <<target, initial>> delays that the callers of move_to pass: run_gcode
\* and the defaults (rapid or linear target, configured initial delay),
\* measure_workspace and measure_feedrate (initial delay twice the target).
DelayPairs == {<<step_delay_ms_rapid, step_delay_ms_init>>,
               <<step_delay_ms_linear, step_delay_ms_init>>,
               <<step_delay_ms_linear, 2 * step_delay_ms_linear>>,
               <<step_delay_ms_rapid, 2 * step_delay_ms_rapid>>}

\* A <<target, initial>> pair that update() rejects: a target delay as
\* long as the initial delay.
FailingDelayPairs == {<<step_delay_ms_init, step_delay_ms_init>>}

\* move_to with a non-zero differential (dx, dy) enters the two
\* controllers and re-parameterises them.
SpeedMoveTo ==
    /\ ~sf.active
    /\ \E dx \in 0..MaxSpeedSteps, dy \in 0..MaxSpeedSteps,
          d \in DelayPairs, jf \in 0..JfDen :
          /\ dx # 0 \/ dy # 0
          /\ primary_speed_controller' =
                 SpeedCtlUpdate(SpeedCtlEnter(primary_speed_controller), d[2], d[1])
          /\ secondary_speed_controller' =
                 SpeedCtlUpdate(SpeedCtlEnter(secondary_speed_controller), d[2], d[1])
          /\ sf' = [NoFrameSf EXCEPT !.active = TRUE, !.dx = dx, !.dy = dy,
                                     !.err = dx - dy, !.remaining_x = dx,
                                     !.remaining_y = dy, !.jf = jf]
    /\ UNCHANGED <<axes, activated, config, limits, task, frames, penv, hm, mw,
                   queuev, flags, tiles, disp, session, now>>

\* One iteration of the loop of move_to, as far as the controllers see it:
\* the step decisions, then update_speed of both controllers.
SpeedIterate ==
    /\ sf.active /\ ~sf.local
    /\ sf.remaining_x > 0 \/ sf.remaining_y > 0
    /\ LET e2 == 2 * sf.err
           stepx == e2 > -sf.dy /\ sf.remaining_x > 0
           stepy == e2 < sf.dx /\ sf.remaining_y > 0
           rx == IF stepx THEN sf.remaining_x - 1 ELSE sf.remaining_x
           ry == IF stepy THEN sf.remaining_y - 1 ELSE sf.remaining_y
       IN /\ sf' = [sf EXCEPT !.updated = TRUE,
                               !.remaining_x = rx, !.remaining_y = ry,
                               !.err = sf.err - (IF stepx THEN sf.dy ELSE 0)
                                              + (IF stepy THEN sf.dx ELSE 0)]
          /\ primary_speed_controller' =
                 update_speed(primary_speed_controller, rx, sf.jf)
          /\ secondary_speed_controller' =
                 update_speed(secondary_speed_controller, ry, sf.jf)
    /\ UNCHANGED <<axes, activated, config, limits, task, frames, penv, hm, mw,
                   queuev, flags, tiles, disp, session, now>>

\* The loop ends with no step remaining and move_to leaves the controllers.
SpeedReturn ==
    /\ sf.active /\ ~sf.local
    /\ sf.remaining_x = 0
    /\ sf.remaining_y = 0
    /\ sf' = NoFrameSf
    /\ primary_speed_controller' = SpeedCtlExit(primary_speed_controller)
    /\ secondary_speed_controller' = SpeedCtlExit(secondary_speed_controller)
    /\ UNCHANGED <<axes, activated, config, limits, task, frames, penv, hm, mw,
                   queuev, flags, tiles, disp, session, now>>

\* A limit switch is found asserted at the head of an iteration: the
\* exception leaves the controllers as they are.
SpeedRaise ==
    /\ sf.active /\ ~sf.local
    /\ sf.remaining_x > 0 \/ sf.remaining_y > 0
    /\ sf' = NoFrameSf
    /\ primary_speed_controller' = SpeedCtlExit(primary_speed_controller)
    /\ secondary_speed_controller' = SpeedCtlExit(secondary_speed_controller)
    /\ UNCHANGED <<axes, activated, config, limits, task, frames, penv, hm, mw,
                   queuev, flags, tiles, disp, session, now>>

\* move_to with delays that update() rejects: both controllers are
\* entered, pc.update raises ValueError after replacing the delays, and the
\* exception leaves the scope of both.
SpeedUpdateRaise ==
    /\ ~sf.active
    /\ \E d \in FailingDelayPairs :
          /\ primary_speed_controller' =
                 SpeedCtlExit(SpeedCtlUpdateFails(
                     SpeedCtlEnter(primary_speed_controller), d[2], d[1]))
          /\ secondary_speed_controller' =
                 SpeedCtlExit(SpeedCtlEnter(secondary_speed_controller))
    /\ sf' = NoFrameSf
    /\ UNCHANGED <<axes, activated, config, limits, task, frames, penv, hm, mw,
                   queuev, flags, tiles, disp, session, now>>

\* position_pen over remaining duty values, or a routine, creates a
\* controller of its own and enters it; position_pen either raises the
\* duty to target_duty or lowers it.
SpeedScopeEnter ==
    /\ ~sf.active
    /\ \E n \in 1..MaxSpeedSteps, lowering \in BOOLEAN :
          sf' = [NoFrameSf EXCEPT
                   !.active = TRUE, !.local = TRUE, !.remaining_x = n,
                   !.lowering = lowering,
                   !.ctrl = SpeedCtlEnter(SpeedController(step_delay_ms_linear,
                                                          step_delay_ms_init))]
    /\ UNCHANGED <<axes, activated, config, limits, task, frames, penv, hm, mw,
                   queuev, flags, tiles, disp, session, now,
                   primary_speed_controller, secondary_speed_controller>>

\* ctrl.update_speed(target_duty - duty): the distance left when the duty
\* rises to target_duty, minus the distance left when it falls.
PenRemaining(left, lowering) == IF lowering THEN -left ELSE left

\* One iteration inside that scope: ctrl.update_speed(remaining).
SpeedScopeIterate ==
    /\ sf.active /\ sf.local
    /\ sf.remaining_x > 0
    /\ sf' = [sf EXCEPT !.remaining_x = sf.remaining_x - 1,
                        !.ctrl = update_speed(sf.ctrl,
                                     PenRemaining(sf.remaining_x - 1, sf.lowering),
                                     JfDen)]
    /\ UNCHANGED <<axes, activated, config, limits, task, frames, penv, hm, mw,
                   queuev, flags, tiles, disp, session, now,
                   primary_speed_controller, secondary_speed_controller>>

\* The scope is left, by the end of the loop or by an exception raised in
\* any iteration.
SpeedScopeLeave ==
    /\ sf.active /\ sf.local
    /\ sf' = [NoFrameSf EXCEPT !.ctrl = SpeedCtlExit(sf.ctrl)]
    /\ UNCHANGED <<axes, activated, config, limits, task, frames, penv, hm, mw,
                   queuev, flags, tiles, disp, session, now,
                   primary_speed_controller, secondary_speed_controller>>

\* ------------------------------------------------ MachineBase.position_pen
\* int(min_pen_duty + (max_pen_duty - min_pen_duty) * target / 100)
TargetDuty(target) == Trunc(MinPenDuty * 100 + (MaxPenDuty - MinPenDuty) * target, 100)

\* remaining_steps is the argument of the frame's last update_speed call.
NoFramePen == [target |-> 0, target_duty |-> 0, duty |-> 0, remaining_steps |-> 0]

\* Entry of position_pen(pen.target): validate, compare with the current
\* duty, write the first value of the range and await control().
PenEnter ==
    /\ pc = "pen_enter"
    /\ IF pen.target \notin 0..100
         THEN /\ pc' = "raise"
              /\ exc' = ValueError
              /\ UNCHANGED <<pen, servo_duty, stack>>
         ELSE IF servo_duty = TargetDuty(pen.target)
           THEN /\ pc' = Head(stack)
                /\ stack' = Tail(stack)
                /\ pen' = NoFramePen
                /\ UNCHANGED <<servo_duty, exc>>
           ELSE /\ pen' = [pen EXCEPT !.target_duty = TargetDuty(pen.target),
                                      !.duty = servo_duty,
                                      !.remaining_steps =
                                          TargetDuty(pen.target) - servo_duty]
                /\ servo_duty' = servo_duty
                /\ pc' = "pen_sleep"
                /\ UNCHANGED <<stack, exc>>
    /\ UNCHANGED <<axes, activated, config, limits, ctx, frames, hm, mw, queuev, flags, tiles, speed,
                   disp, session, now>>

\* control() is over: the range is exhausted (return) or the next duty,
\* one closer to the target, is written.
PenWake ==
    /\ pc = "pen_sleep"
    /\ IF pen.duty = pen.target_duty
         THEN /\ pc' = Head(stack)
              /\ stack' = Tail(stack)
              /\ pen' = NoFramePen
              /\ UNCHANGED servo_duty
         ELSE /\ pen' = [pen EXCEPT
                   !.duty = IF pen.duty < pen.target_duty
                              THEN pen.duty + 1 ELSE pen.duty - 1,
                   !.remaining_steps =
                       pen.target_duty - (IF pen.duty < pen.target_duty
                                            THEN pen.duty + 1 ELSE pen.duty - 1)]
              /\ servo_duty' = pen'.duty
              /\ UNCHANGED <<pc, stack>>
    /\ UNCHANGED <<axes, activated, config, limits, ctx, exc, frames, hm, mw, queuev,
                   flags, tiles, speed, disp, session, now>>

\* --------------------------------------------------------------- homing
is_primary_limit == primary_limit_pin = 1
is_secondary_limit == secondary_limit_pin = 1
is_primary_home_any == primary_limit_pin = 1
is_primary_home == primary_limit_pin = 1 /\ dir_primary = dir_backward
is_secondary_home == secondary_limit_pin = 1 /\ dir_secondary = dir_backward

NoFrameHm == [offset_steps |-> 0]
NoFrameMw == [actual_steps_primary |-> 0, actual_steps_secondary |-> 0]

\* Truth value of a direction constant passed as is_backward.
Truthy(v) == v # 0

\* home_cycle: await raise_pen()
HomeEnter ==
    /\ pc = "home_enter"
    /\ pen' = [NoFramePen EXCEPT !.target = 100]
    /\ pc' = "pen_enter"
    /\ stack' = <<"home_check">> \o stack
    /\ UNCHANGED <<axes, activated, config, limits, ctx, exc, frames, hm, mw, servo_duty,
                   queuev, flags, tiles, speed, disp, session, now>>

\* if True in limit_status().values(): raise LimitSwitchException
HomeCheck ==
    /\ pc = "home_check"
    /\ IF is_primary_limit \/ is_secondary_limit
         THEN pc' = "raise" /\ exc' = LimitSwitchException
         ELSE pc' = "home1_test" /\ exc' = exc
    /\ UNCHANGED <<axes, activated, config, limits, stack, ctx, frames, sys>>

\* Phase 1 loop test: while not primary home or not secondary home
Home1Test ==
    /\ pc = "home1_test"
    /\ IF ~is_primary_home \/ ~is_secondary_home
         THEN pc' = "home1_p" /\ hm' = hm
         ELSE pc' = "home2_test" /\ hm' = [offset_steps |-> 0]
    /\ mw' = mw
    /\ UNCHANGED <<axes, activated, config, limits, stack, ctx, exc, frames, penv,
                   queuev, flags, tiles, speed, disp, session, now>>

\* if not is_primary_home(): await step_primary(dir_backward)
Home1Primary ==
    /\ pc = "home1_p"
    /\ IF ~is_primary_home
         THEN /\ st' = [NoFrameSt EXCEPT !.axis = "p", !.bw = Truthy(dir_backward)]
              /\ pc' = "step_enter"
              /\ stack' = <<"home1_s">> \o stack
         ELSE /\ pc' = "home1_s"
              /\ UNCHANGED <<st, stack>>
    /\ UNCHANGED <<axes, activated, config, limits, ctx, exc, mv, mvh, sys>>

\* if not is_secondary_home(): await step_secondary(dir_backward); then
\* ctrl.update_speed(); await ctrl.control()
Home1Secondary ==
    /\ pc = "home1_s"
    /\ IF ~is_secondary_home
         THEN /\ st' = [NoFrameSt EXCEPT !.axis = "s", !.bw = Truthy(dir_backward)]
              /\ pc' = "step_enter"
              /\ stack' = <<"home1_sleep">> \o stack
         ELSE /\ pc' = "home1_sleep"
              /\ UNCHANGED <<st, stack>>
    /\ UNCHANGED <<axes, activated, config, limits, ctx, exc, mv, mvh, sys>>

Home1Wake ==
    /\ pc = "home1_sleep"
    /\ pc' = "home1_test"
    /\ UNCHANGED <<axes, activated, config, limits, stack, ctx, exc, frames, sys>>

\* Phase 2 loop test, and the offset_steps > steps_per_revolution check.
Home2Test ==
    /\ pc = "home2_test"
    /\ IF is_primary_limit \/ is_secondary_limit
         THEN IF hm.offset_steps > StepsPerRevolution
                THEN pc' = "raise" /\ exc' = ValueError
                ELSE pc' = "home2_p" /\ exc' = exc
         ELSE pc' = "home_done" /\ exc' = exc
    /\ UNCHANGED <<axes, activated, config, limits, stack, ctx, frames, sys>>

\* if is_primary_limit(): await step_primary(dir_forward)
Home2Primary ==
    /\ pc = "home2_p"
    /\ IF is_primary_limit
         THEN /\ st' = [NoFrameSt EXCEPT !.axis = "p", !.bw = Truthy(dir_forward)]
              /\ pc' = "step_enter"
              /\ stack' = <<"home2_s">> \o stack
         ELSE /\ pc' = "home2_s"
              /\ UNCHANGED <<st, stack>>
    /\ UNCHANGED <<axes, activated, config, limits, ctx, exc, mv, mvh, sys>>

\* if is_secondary_limit(): await step_secondary(dir_forward)
Home2Secondary ==
    /\ pc = "home2_s"
    /\ IF is_secondary_limit
         THEN /\ st' = [NoFrameSt EXCEPT !.axis = "s", !.bw = Truthy(dir_forward)]
              /\ pc' = "step_enter"
              /\ stack' = <<"home2_inc">> \o stack
         ELSE /\ pc' = "home2_inc"
              /\ UNCHANGED <<st, stack>>
    /\ UNCHANGED <<axes, activated, config, limits, ctx, exc, mv, mvh, sys>>

\* offset_steps += 1; ctrl.update_speed(); await ctrl.control()
Home2Inc ==
    /\ pc = "home2_inc"
    /\ hm' = [offset_steps |-> hm.offset_steps + 1]
    /\ mw' = mw
    /\ pc' = "home2_sleep"
    /\ UNCHANGED <<axes, activated, config, limits, stack, ctx, exc, frames, penv,
                   queuev, flags, tiles, speed, disp, session, now>>

Home2Wake ==
    /\ pc = "home2_sleep"
    /\ pc' = "home2_test"
    /\ UNCHANGED <<axes, activated, config, limits, stack, ctx, exc, frames, sys>>

\* current_pos_primary = 0; current_pos_secondary = 0; return
HomeDone ==
    /\ pc = "home_done"
    /\ current_pos_primary' = 0
    /\ current_pos_secondary' = 0
    /\ pc' = Head(stack)
    /\ stack' = Tail(stack)
    /\ hm' = NoFrameHm
    /\ mw' = mw
    /\ UNCHANGED <<current_step_primary, current_step_secondary, dir_primary,
                   dir_secondary, primary_pins, secondary_pins, activated, config,
                   limits, ctx, exc, frames, penv, queuev, flags, tiles, speed, disp, session, now>>


\* ------------------------------------------------ routines.measure_workspace
\* await home_cycle(m)
MeasureEnter ==
    /\ pc = "mw_enter"
    /\ pc' = "home_enter"
    /\ stack' = <<"mw_move">> \o stack
    /\ UNCHANGED <<axes, activated, config, limits, ctx, exc, frames, sys>>

\* await m.move_to(steps_per_revolution, steps_per_revolution, ...): the
\* arguments are coordinates, safe keeps its default True.
MeasureMove ==
    /\ pc = "mw_move"
    /\ mv' = [NoFrameMv EXCEPT !.x = Fine(StepsPerRevolution),
                               !.y = Fine(StepsPerRevolution),
                               !.safe = TRUE]
    /\ pc' = "mv_enter"
    /\ stack' = <<"mw_init">> \o stack
    /\ UNCHANGED <<axes, activated, config, limits, ctx, exc, st, mvh, sys>>

\* actual_steps_primary = actual_steps_secondary = steps_per_revolution
MeasureInit ==
    /\ pc = "mw_init"
    /\ mw' = [actual_steps_primary |-> StepsPerRevolution,
              actual_steps_secondary |-> StepsPerRevolution]
    /\ pc' = "mwf_test"
    /\ UNCHANGED <<axes, activated, config, limits, stack, ctx, exc, frames, penv,
                   hm, queuev, flags, tiles, speed, disp, session, now>>

\* Forward loop test: while not primary limit or not secondary limit
MeasureFwdTest ==
    /\ pc = "mwf_test"
    /\ pc' = IF ~is_primary_limit \/ ~is_secondary_limit THEN "mwf_p" ELSE "mwb_test"
    /\ UNCHANGED <<axes, activated, config, limits, stack, ctx, exc, frames, sys>>

\* if not is_primary_limit(): await step_primary(dir_forward);
\* actual_steps_primary += 1 (counted when the step is called: the counter
\* is local and step_primary does not raise)
MeasureFwdPrimary ==
    /\ pc = "mwf_p"
    /\ IF ~is_primary_limit
         THEN /\ st' = [NoFrameSt EXCEPT !.axis = "p", !.bw = Truthy(dir_forward)]
              /\ mw' = [mw EXCEPT !.actual_steps_primary = @ + 1]
              /\ pc' = "step_enter"
              /\ stack' = <<"mwf_s">> \o stack
         ELSE /\ pc' = "mwf_s"
              /\ UNCHANGED <<st, mw, stack>>
    /\ UNCHANGED <<axes, activated, config, limits, ctx, exc, mv, mvh, penv, hm,
                   queuev, flags, tiles, speed, disp, session, now>>

\* if not is_secondary_limit(): await step_secondary(dir_forward);
\* actual_steps_secondary += 1; then ctrl.update_speed(); await
\* ctrl.control()
MeasureFwdSecondary ==
    /\ pc = "mwf_s"
    /\ IF ~is_secondary_limit
         THEN /\ st' = [NoFrameSt EXCEPT !.axis = "s", !.bw = Truthy(dir_forward)]
              /\ mw' = [mw EXCEPT !.actual_steps_secondary = @ + 1]
              /\ pc' = "step_enter"
              /\ stack' = <<"mwf_sleep">> \o stack
         ELSE /\ pc' = "mwf_sleep"
              /\ UNCHANGED <<st, mw, stack>>
    /\ UNCHANGED <<axes, activated, config, limits, ctx, exc, mv, mvh, penv, hm,
                   queuev, flags, tiles, speed, disp, session, now>>

MeasureFwdWake ==
    /\ pc = "mwf_sleep"
    /\ pc' = "mwf_test"
    /\ UNCHANGED <<axes, activated, config, limits, stack, ctx, exc, frames, sys>>

\* Backward loop test: while primary limit or secondary limit; after the
\* loop the counts are converted and assigned.
MeasureBwdTest ==
    /\ pc = "mwb_test"
    /\ pc' = IF is_primary_limit \/ is_secondary_limit THEN "mwb_p" ELSE "mw_assign"
    /\ UNCHANGED <<axes, activated, config, limits, stack, ctx, exc, frames, sys>>

\* if is_primary_limit(): await step_primary(dir_backward);
\* actual_steps_primary -= 1
MeasureBwdPrimary ==
    /\ pc = "mwb_p"
    /\ IF is_primary_limit
         THEN /\ st' = [NoFrameSt EXCEPT !.axis = "p", !.bw = Truthy(dir_backward)]
              /\ mw' = [mw EXCEPT !.actual_steps_primary = @ - 1]
              /\ pc' = "step_enter"
              /\ stack' = <<"mwb_s">> \o stack
         ELSE /\ pc' = "mwb_s"
              /\ UNCHANGED <<st, mw, stack>>
    /\ UNCHANGED <<axes, activated, config, limits, ctx, exc, mv, mvh, penv, hm,
                   queuev, flags, tiles, speed, disp, session, now>>

\* if is_secondary_limit(): await step_secondary(dir_backward);
\* actual_steps_secondary -= 1; then ctrl.update_speed(); await
\* ctrl.control()
MeasureBwdSecondary ==
    /\ pc = "mwb_s"
    /\ IF is_secondary_limit
         THEN /\ st' = [NoFrameSt EXCEPT !.axis = "s", !.bw = Truthy(dir_backward)]
              /\ mw' = [mw EXCEPT !.actual_steps_secondary = @ - 1]
              /\ pc' = "step_enter"
              /\ stack' = <<"mwb_sleep">> \o stack
         ELSE /\ pc' = "mwb_sleep"
              /\ UNCHANGED <<st, mw, stack>>
    /\ UNCHANGED <<axes, activated, config, limits, ctx, exc, mv, mvh, penv, hm,
                   queuev, flags, tiles, speed, disp, session, now>>

MeasureBwdWake ==
    /\ pc = "mwb_sleep"
    /\ pc' = "mwb_test"
    /\ UNCHANGED <<axes, activated, config, limits, stack, ctx, exc, frames, sys>>

\* (actual_steps / steps_per_revolution) * steps_per_revolution, as a
\* length in fine units.
MeasuredDimension(actual_steps) ==
    Fine(actual_steps * StepsPerRevolution) \div StepsPerRevolution

\* global_boundaries["x_max"], ["y_max"] = the two dimensions; two lines
\* appended to additional_info; await m.move_to(primary_dimension / 2,
\* secondary_dimension / 2), after which measure_workspace returns.
MeasureAssign ==
    /\ pc = "mw_assign"
    /\ global_boundaries' =
          [global_boundaries EXCEPT
              !.x_max = MeasuredDimension(mw.actual_steps_primary),
              !.y_max = MeasuredDimension(mw.actual_steps_secondary)]
    /\ additional_info' = additional_info \o <<<<now, "primary">>, <<now, "secondary">>>>
    /\ mv' = [NoFrameMv EXCEPT
                 !.x = MeasuredDimension(mw.actual_steps_primary) \div 2,
                 !.y = MeasuredDimension(mw.actual_steps_secondary) \div 2,
                 !.safe = TRUE]
    /\ pc' = "mv_enter"
    /\ stack' = <<"mw_ret">> \o stack
    /\ UNCHANGED <<axes, activated, user_boundaries, reject_oob, max_queue_length,
                   limits, ctx, exc, st, mvh, penv, hm, mw, queuev, flags, tiles,
                   speed, csys, positioning, last_command_ts, command, session, now>>

MeasureReturn ==
    /\ pc = "mw_ret"
    /\ mw' = NoFrameMw
    /\ pc' = Head(stack)
    /\ stack' = Tail(stack)
    /\ UNCHANGED <<axes, activated, config, limits, ctx, exc, frames, penv, hm,
                   queuev, flags, tiles, speed, disp, session, now>>


\* ------------------------------------------------------------ commands
\* A queued command line, already matched against run_gcode's patterns:
\* op is the pattern that matches ("BAD": none, "EMPTY": the empty string),
\* x, y are the numeric groups of a motion command, id is the position of
\* the command in the order of appends (history, not read by the program).
\* prefix is the G90 / G91 the line starts with ("": none; op "POS": the
\* line has nothing else that run_gcode acts on); cs is the coordinate
\* system a "WCS" line names.
Cmd(op, x, y) == [op |-> op, x |-> x, y |-> y, cs |-> 0, prefix |-> ""]
Entry(id, c) == [id |-> id, op |-> c.op, x |-> c.x, y |-> c.y, cs |-> c.cs,
                 prefix |-> c.prefix]
NoCommand == [id |-> 0, op |-> "EMPTY", x |-> 0, y |-> 0, cs |-> 0, prefix |-> ""]

\* gcode_regex: the line ends with a motion command (the pattern is not
\* anchored at the start, so a G90 / G91 prefix does not matter).
motion_command(c) == c.op \in {"G0", "G1"}

\* positioning_regex: the line starts with G90 or G91.
positioning_command(c) == c.prefix # ""

\* wcs_set_regex names G54 .. G59.3 only: a line that sets G53 matches no
\* pattern.
wcs_set_any(c) == c.op = "WCS"
wcs_set_command(c) == c.op = "WCS" /\ c.cs \in CsNames \ {0}

\* The branch of run_gcode a line takes: after a G90 / G91 prefix only a
\* motion command goes on; an unmatched line is invalid syntax.
Matched(c) ==
    IF positioning_command(c) /\ ~motion_command(c) THEN "POS"
    ELSE IF c.op = "WCS" /\ ~wcs_set_command(c) THEN "BAD"
    ELSE c.op

\* Data.CS_COORDINATES[name] = value: a dict assignment (a new key would
\* be added).
DictSet(d, k, v) == (k :> v) @@ d

QAppendUnbounded(q, e) == q \o <<e>>
\* deque((), max_queue_length).append: a full deque drops its oldest item.
QAppend(q, e) == IF Len(q) = max_queue_length THEN Tail(q) \o <<e>> ELSE q \o <<e>>

\* stepper.deactivate / stepper.activate: the pin patterns they write.
ActivePinsOff(cur) == AllPinsOff
ActivePins(cur) == PinValues(cur)

\* GCODE_QUEUE.popleft(): the item returned and the queue left.
QPop(q) == <<q[Len(q)], SubSeq(q, 1, Len(q) - 1)>>
QPopleft(q) == <<Head(q), Tail(q)>>

\* The main loop's first handler (except LimitSwitchException) takes e.
LoopHandlerNever(e) == FALSE
LoopHandlerAlways(e) == TRUE
LoopHandlerExits(e) == e = LimitSwitchException

\* f'{time()}: {e}' appended to additional_info.
Diagnostic(e) == <<now, e>>

\* ----------------------------------------------------------- __control_task
\* The task starts: await home_cycle() inside the startup try block.
ControlStart ==
    /\ pc = "start"
    /\ pc' = "home_enter"
    /\ stack' = <<"ctl_init">>
    /\ ctx' = "startup"
    /\ UNCHANGED <<axes, activated, config, limits, exc, frames, sys>>

\* Startup handler: a LimitSwitchException from home_cycle is appended to
\* additional_info and the task goes on; any other exception ends the task.
StartupHandlerNever(e) == FALSE
\* except LimitSwitchException as e
StartupHandlerTakes(e) == e = LimitSwitchException

UnwindStartup ==
    /\ pc = "raise"
    /\ ctx = "startup"
    /\ IF StartupHandlerTakes(exc)
         THEN /\ additional_info' = Append(additional_info, Diagnostic(exc))
              /\ pc' = "ctl_init"
         ELSE /\ additional_info' = additional_info
              /\ pc' = "dead"
    /\ stack' = <<>>
    /\ exc' = "none"
    /\ st' = NoFrameSt
    /\ mv' = NoFrameMv
    /\ mvh' = NoHistMv
    /\ pen' = NoFramePen
    /\ hm' = NoFrameHm
    /\ mw' = NoFrameMw
    /\ UNCHANGED <<axes, activated, config, limits, ctx, servo_duty, queuev, flags, tiles, speed,
                   csys, positioning, last_command_ts, command, session, now>>

\* last_command_ts = 0; enter the main loop.
ControlInit ==
    /\ pc = "ctl_init"
    /\ last_command_ts' = 0
    /\ ctx' = "loop"
    /\ pc' = "ctl_top"
    /\ UNCHANGED <<axes, activated, config, limits, stack, exc, frames, penv, hm, mw,
                   queuev, flags, tiles, speed, additional_info, csys, positioning, command, session, now>>

\* manage_task(file_session_task_tag, "isbusy")
is_session_in_progress == session # NoSession

\* is_active() and time() - last_command_ts > ACTIVE_TIMEOUT
IdleTimeout == activated /\ now - last_command_ts > ActiveTimeout

KillsAnySession == is_session_in_progress
\* not is_paused() and is_session_in_progress()
KillsSession == ~machine_paused /\ is_session_in_progress

\* Top of the loop: idle timeout.  deactivate() and, when not paused and a
\* file session is in progress, kill the file session.
ControlTimeout ==
    /\ pc = "ctl_top"
    /\ IF IdleTimeout
         THEN /\ primary_pins' = AllPinsOff
              /\ secondary_pins' = AllPinsOff
              /\ activated' = FALSE
              /\ session' = IF KillsSession THEN NoSession ELSE session
         ELSE UNCHANGED <<primary_pins, secondary_pins, activated, session>>
    /\ pc' = "ctl_disp"
    /\ UNCHANGED <<current_pos_primary, current_pos_secondary, current_step_primary,
                   current_step_secondary, dir_primary, dir_secondary, config, limits,
                   stack, ctx, exc, frames, penv, hm, mw, queuev, flags, tiles, speed, disp, now>>

\* if is_paused(): await raise_pen()
\* else: popleft the head, if any; a non-empty command activates the coils
\* when they are off, stamps last_command_ts and is run.  The variable
\* command keeps the entry last taken from the queue.
ControlDispatch ==
    /\ pc = "ctl_disp"
    /\ IF machine_paused
         THEN /\ pen' = [NoFramePen EXCEPT !.target = 100]
              /\ pc' = "pen_enter"
              /\ stack' = <<"ctl_sleep">>
              /\ UNCHANGED <<primary_pins, secondary_pins, activated, gcode_queue,
                             last_command_ts, command>>
         ELSE IF gcode_queue # <<>>
           THEN /\ command' = QPopleft(gcode_queue)[1]
                /\ gcode_queue' = QPopleft(gcode_queue)[2]
                /\ IF command'.op # "EMPTY"
                     THEN /\ primary_pins' = IF activated THEN primary_pins
                                             ELSE ActivePins(current_step_primary)
                          /\ secondary_pins' = IF activated THEN secondary_pins
                                               ELSE ActivePins(current_step_secondary)
                          /\ activated' = TRUE
                          /\ last_command_ts' = now
                          /\ pc' = "run_gcode"
                     ELSE /\ pc' = "ctl_sleep"
                          /\ UNCHANGED <<primary_pins, secondary_pins, activated,
                                         last_command_ts>>
                /\ UNCHANGED <<pen, stack>>
           ELSE /\ pc' = "ctl_sleep"
                /\ UNCHANGED <<primary_pins, secondary_pins, activated, gcode_queue,
                               last_command_ts, command, pen, stack>>
    /\ UNCHANGED <<current_pos_primary, current_pos_secondary, current_step_primary,
                   current_step_secondary, dir_primary, dir_secondary, config, limits,
                   ctx, exc, frames, hm, mw, servo_duty, next_id, flags, tiles, speed, additional_info,
                   csys, positioning, session, now>>

\* await asleep(ms_period / 1000) is over.
ControlWake ==
    /\ pc = "ctl_sleep"
    /\ pc' = "ctl_top"
    /\ UNCHANGED <<axes, activated, config, limits, stack, ctx, exc, frames, sys>>

\* Main loop handlers.  LimitSwitchException: append, deactivate(), return.
\* Any other exception: append, and the loop goes on with its next pass.
UnwindLoop ==
    /\ pc = "raise"
    /\ ctx = "loop"
    /\ additional_info' = Append(additional_info, Diagnostic(exc))
    /\ IF LoopHandlerExits(exc)
         THEN /\ primary_pins' = AllPinsOff
              /\ secondary_pins' = AllPinsOff
              /\ activated' = FALSE
              /\ pc' = "exited"
         ELSE /\ pc' = "ctl_top"
              /\ UNCHANGED <<primary_pins, secondary_pins, activated>>
    /\ stack' = <<>>
    /\ exc' = "none"
    /\ st' = NoFrameSt
    /\ mv' = NoFrameMv
    /\ mvh' = NoHistMv
    /\ pen' = NoFramePen
    /\ hm' = NoFrameHm
    /\ mw' = NoFrameMw
    /\ UNCHANGED <<current_pos_primary, current_pos_secondary, current_step_primary,
                   current_step_secondary, dir_primary, dir_secondary, config, limits,
                   ctx, servo_duty, queuev, flags, tiles, speed, csys, positioning, last_command_ts,
                   command, session, now>>

\* ------------------------------------------------------------- run_gcode
\* The dequeued command is matched and started.
RunGcode ==
    /\ pc = "run_gcode"
    /\ positioning' = IF command.prefix = "G90" THEN POS_ABSOLUTE
                      ELSE IF command.prefix = "G91" THEN POS_RELATIVE
                      ELSE positioning
    /\ CASE Matched(command) \in {"BAD", "POS"} ->
              /\ pc' = "ctl_sleep"
              /\ UNCHANGED <<stack, pen, csys>>
         [] Matched(command) = "G28" ->
              /\ pc' = "home_enter"
              /\ stack' = <<"ctl_sleep">>
              /\ UNCHANGED <<pen, csys>>
         [] Matched(command) = "M100" ->
              /\ pc' = "mw_enter"
              /\ stack' = <<"ctl_sleep">>
              /\ UNCHANGED <<pen, csys>>
         [] Matched(command) = "M6" ->
              /\ pen' = [NoFramePen EXCEPT !.target = 50]
              /\ pc' = "pen_enter"
              /\ stack' = <<"rg_m6">>
              /\ UNCHANGED csys
         [] Matched(command) = "CS" ->
              /\ current_cs' = command.x
              /\ UNCHANGED <<cs_coordinates, cs_scaling>>
              /\ pc' = "ctl_sleep"
              /\ UNCHANGED <<stack, pen>>
         [] Matched(command) = "WCS" ->
              /\ cs_coordinates' = DictSet(cs_coordinates, command.cs,
                                            <<command.x, command.y>>)
              /\ pc' = "ctl_sleep"
              /\ UNCHANGED <<stack, pen, current_cs, cs_scaling>>
         [] Matched(command) = "G51" ->
              /\ cs_scaling' = command.x
              /\ pc' = "ctl_sleep"
              /\ UNCHANGED <<stack, pen, current_cs, cs_coordinates>>
         [] Matched(command) = "M104" ->
              /\ pen' = [NoFramePen EXCEPT !.target = 100]
              /\ pc' = "pen_enter"
              /\ stack' = <<"rg_eject", "ctl_sleep">>
              /\ UNCHANGED csys
         [] Matched(command) = "G0" ->
              /\ pen' = [NoFramePen EXCEPT !.target = 100]
              /\ pc' = "pen_enter"
              /\ stack' = <<"rg_move", "ctl_sleep">>
              /\ UNCHANGED csys
         [] Matched(command) = "G1" ->
              /\ pen' = [NoFramePen EXCEPT !.target = 0]
              /\ pc' = "pen_enter"
              /\ stack' = <<"rg_move", "ctl_sleep">>
              /\ UNCHANGED csys
    /\ UNCHANGED <<axes, activated, config, limits, ctx, exc, frames, hm, mw, servo_duty,
                   queuev, flags, tiles, speed, additional_info, last_command_ts, command,
                   session, now>>

\* Tool change: prepare_pen() has returned; PAUSED = True; return.
RunToolChangeDone ==
    /\ pc = "rg_m6"
    /\ machine_paused' = TRUE
    /\ pc' = "ctl_sleep"
    /\ UNCHANGED <<axes, activated, config, limits, stack, ctx, exc, frames, penv,
                   hm, mw, queuev, paused, tiles, speed, disp, session, now>>

\* CartesianPlotter.get_current_pos()["sum"]
get_current_pos ==
    <<(current_pos_primary * Fine(UnitPerRevolution)) \div StepsPerRevolution,
      (current_pos_secondary * Fine(UnitPerRevolution)) \div StepsPerRevolution>>

\* MachineBase.absolute_positioning(): self.positioning == POS_ABSOLUTE
absolute_positioning_always == TRUE
absolute_positioning == positioning = POS_ABSOLUTE

\* max(cosine_similarity(p0, p1, p2), 0): 0 when a segment has no length
\* or the segments do not point the same way.
ClampedCosine(p0, p1, p2) ==
    LET v1 == <<p1[1] - p0[1], p1[2] - p0[2]>>
        v2 == <<p2[1] - p1[1], p2[2] - p1[2]>>
        n1 == v1[1] * v1[1] + v1[2] * v1[2]
        n2 == v2[1] * v2[1] + v2[2] * v2[2]
        dot == v1[1] * v2[1] + v1[2] * v2[2]
    IN IF n1 = 0 \/ n2 = 0 \/ dot <= 0 THEN JfZero
       ELSE IF dot * dot = n1 * n2 THEN JfOne
       ELSE [num |-> dot, den2 |-> n1 * n2]

\* The junction factor run_gcode computes for the motion command it runs:
\* it starts at 1 and is replaced when the queue is empty or its head is a
\* motion command.
junction_factor ==
    IF gcode_queue = <<>> THEN JfZero
    ELSE LET next_command == Head(gcode_queue)
             target == <<command.x, command.y>>
             next_target == <<next_command.x, next_command.y>>
         IN IF ~motion_command(next_command) THEN JfOne
            ELSE IF next_command.op # command.op THEN JfZero
            ELSE IF absolute_positioning
              THEN ClampedCosine(get_current_pos, target, next_target)
              ELSE ClampedCosine(get_current_pos,
                                 <<get_current_pos[1] + target[1],
                                   get_current_pos[2] + target[2]>>,
                                 <<get_current_pos[1] + target[1] + next_target[1],
                                   get_current_pos[2] + target[2] + next_target[2]>>)

\* Motion: the pen is positioned; the junction factor is computed; the
\* target is transformed (absolute positioning: offset of current_cs plus
\* the scaled coordinate; relative: current position plus the scaled
\* coordinate) and move_to(..., safe=True) is awaited.
RunMove ==
    /\ pc = "rg_move"
    /\ mv' = [NoFrameMv EXCEPT
                !.x = IF absolute_positioning
                        THEN cs_coordinates[current_cs][1]
                               + (command.x * cs_scaling) \div CoordDen
                        ELSE get_current_pos[1]
                               + (command.x * cs_scaling) \div CoordDen,
                !.y = IF absolute_positioning
                        THEN cs_coordinates[current_cs][2]
                               + (command.y * cs_scaling) \div CoordDen
                        ELSE get_current_pos[2]
                               + (command.y * cs_scaling) \div CoordDen,
                !.junction_factor = junction_factor,
                !.safe = TRUE]
    /\ pc' = "mv_enter"
    /\ UNCHANGED <<axes, activated, config, limits, stack, ctx, exc, st, mvh, sys>>

\* _eject_workspace: raise_pen() has returned;
\* await move_to(x_max / 2, y_max - margin)
RunEject ==
    /\ pc = "rg_eject"
    /\ mv' = [NoFrameMv EXCEPT !.x = global_boundaries.x_max \div 2,
                               !.y = global_boundaries.y_max - Fine(EjectMargin),
                               !.safe = TRUE]
    /\ pc' = "mv_enter"
    /\ UNCHANGED <<axes, activated, config, limits, stack, ctx, exc, st, mvh, sys>>

\* --------------------------------------------------------- HTTP callbacks
\* Callbacks and the file reader run only while the dispatcher is at an
\* await point or has ended.
Yielded == pc \in Suspended \cup Ended

\* Request bodies of plotter/gcode, as lists of command lines.
BodiesRun == {<<Cmd("G0", Fine(MaxCoord), 0)>>, <<Cmd("G1", Fine(1), Fine(1))>>,
              <<Cmd("M6", 0, 0)>>, <<Cmd("BAD", 0, 0)>>,
              <<Cmd("EMPTY", 0, 0), Cmd("G0", 0, Fine(1))>>}
Bodies == BodiesRun \cup {<<Cmd("G28", 0, 0)>>}

\* The entries body gets when appended from next_id on.
Entries(body) == [i \in 1..Len(body) |-> Entry(next_id + i - 1, body[i])]

\* for c in commands: gcode_queue.append(c)
RECURSIVE AppendAll(_, _)
AppendAll(q, es) == IF es = <<>> THEN q ELSE AppendAll(QAppend(q, Head(es)), Tail(es))

\* Outcomes of a callback: the exception it raises, or "ok".
ServerBusyException == "ServerBusyException"
RuntimeError == "RuntimeError"
TypeError == "TypeError"

\* Outcome of _queue_gcode_req_clb for a body, in the current state.
GcodeAlwaysOk(body) == "ok"
GcodeReply(body) ==
    IF is_session_in_progress THEN ServerBusyException
    ELSE IF Len(gcode_queue) + Len(body) > max_queue_length THEN RuntimeError
    ELSE "ok"

\* _queue_gcode_req_clb called with one of bodies: ServerBusy during a file
\* session; all lines are appended, or none when they do not fit.
\* _queue_gcode_req_clb(body), while fewer than cap commands were queued.
GcodeRequestUpTo(body, cap) ==
    /\ Yielded
    /\ next_id + Len(body) - 1 <= cap
    /\ IF GcodeReply(body) # "ok"
         THEN UNCHANGED <<gcode_queue, next_id>>
         ELSE /\ gcode_queue' = AppendAll(gcode_queue, Entries(body))
              /\ next_id' = next_id + Len(body)
    /\ UNCHANGED <<axes, activated, config, limits, task, frames, penv, hm, mw, flags, tiles, speed,
                   disp, session, now>>

GcodeRequest(body) == GcodeRequestUpTo(body, MaxCommands)

QueueGcode(bodies) == \E body \in bodies : GcodeRequest(body)

GcodeClb == QueueGcode(Bodies)

\* The same callback for clients that never request homing.
GcodeClbRun == QueueGcode(BodiesRun)

\* The callback for a client that homes and draws: at most MaxHomeCommands
\* single-line requests.
BodiesHome == {<<Cmd("G28", 0, 0)>>, <<Cmd("G1", Fine(1), Fine(1))>>}

GcodeClbHome == next_id <= MaxHomeCommands /\ QueueGcode(BodiesHome)

\* Request bodies of plotter/pause, lower-cased.
PauseValues == {"true", "false", "other"}

\* _plotter_pause_clb: "true" / "false" are stored in the attribute paused
\* of the machine object (not machine_paused, which is_paused() reads);
\* any other value is rejected.
PauseClb(v) ==
    /\ Yielded
    /\ paused' = IF v = "other" THEN paused ELSE (v = "true")
    /\ UNCHANGED <<axes, activated, config, limits, task, frames, penv, hm, mw, queuev,
                   machine_paused, tiles, speed, disp, session, now>>

\* _plotter_stop_clb: kill the file session, drain the queue, paused = False.
StopClb ==
    /\ Yielded
    /\ session' = NoSession
    /\ gcode_queue' = <<>>
    /\ paused' = FALSE
    /\ UNCHANGED <<axes, activated, config, limits, task, frames, penv, hm, mw, next_id,
                   machine_paused, tiles, speed, disp, now>>

\* _plotter_play_clb: ServerBusy during a file session, ValueError for a
\* workspace index outside 1..tile_grid_size^2, else the file reader task
\* is created for the sketch and the named workspaces.  A play object is
\* modelled by whether it has the "workspaces" key, and the indices under it.
PlayReply == IF is_session_in_progress THEN ServerBusyException ELSE "ok"

PlayObject(indices) == [key |-> TRUE, indices |-> indices]
PlayObjectNoKey == [key |-> FALSE, indices |-> <<>>]
WorkspaceIndices(w) == IF w.key THEN w.indices ELSE <<>>

PlayReplyFor(w) ==
    IF is_session_in_progress THEN ServerBusyException
    ELSE IF \E k \in 1..Len(WorkspaceIndices(w)) :
               \/ WorkspaceIndices(w)[k] < 1
               \/ WorkspaceIndices(w)[k] > tile_grid_size * tile_grid_size
      THEN ValueError
    ELSE "ok"

\* Commands a session for the workspace indices w queues.
SessionLength(w) ==
    Max(Len(WorkspaceIndices(w)), 1) * (SketchLen + 1) + 1

PlayRequest(inputs, cap) ==
    /\ Yielded
    /\ \E w \in inputs :
          /\ next_id + SessionLength(w) - 1 <= cap
          /\ session' = IF PlayReplyFor(w) # "ok" THEN session
                        ELSE [rpc |-> "r_start", left |-> SketchLen,
                              ws |-> WorkspaceIndices(w), wi |-> 1]
    /\ UNCHANGED <<axes, activated, config, limits, task, frames, penv, hm, mw, queuev,
                   flags, tiles, speed, disp, now>>

PlayClb == PlayRequest({PlayObjectNoKey}, MaxCommands)

\* Play requests with and without workspaces: no key, an empty list, tiles
\* 2 and 1, and indices below and above the tiles of the grid.
PlayInputs == {PlayObjectNoKey, PlayObject(<<>>), PlayObject(<<2, 1>>),
               PlayObject(<<0>>), PlayObject(<<10>>)}
PlayClbWs == PlayRequest(PlayInputs, MaxPlayCommands)

\* _plotter_test_clb: ServerBusy during a file session; else the call
\* __file_reader("test_routine.gcode") lacks the sketch_name argument and
\* raises TypeError before any task is created.
TestReply == IF is_session_in_progress THEN ServerBusyException ELSE TypeError

TestClb ==
    /\ Yielded
    /\ TestReply # "ok"
    /\ UNCHANGED vars

\* Grid sizes a client posts to plotter/tiling.  For the one valid size
\* here the tile spacing and the scaling 1 / grid_size are whole numbers.
GridInputs == {0, 1, 4}

\* Outcome of _plotter_set_tiling_clb for grid size n.
TilingNeverBusy(n) == IF n \notin 1..3 THEN ValueError ELSE "ok"
TilingReply(n) ==
    IF is_session_in_progress THEN ServerBusyException
    ELSE IF n \notin 1..3 THEN ValueError
    ELSE "ok"

WcsCmd(k, x, y) == [Cmd("WCS", x, y) EXCEPT !.cs = k]

\* The commands the tiling callback appends: the offsets of the n * n tiles
\* (row i, column j gets wcs_names[i * n + j + 1]), the scaling, and the
\* select of tile 1.
TilingCommandsTransposed(n) ==
    LET x_spacing == (global_boundaries.x_max - global_boundaries.x_min) \div n
        y_spacing == (global_boundaries.y_max - global_boundaries.y_min) \div n
    IN [k \in 1..(n * n + 2) |->
          IF k <= n * n
            THEN LET i == (k - 1) \div n
                     j == (k - 1) % n
                 IN WcsCmd(i * n + j + 1, x_spacing * i, y_spacing * (n - 1 - j))
            ELSE IF k = n * n + 1 THEN Cmd("G51", Fine(1) \div n, 0)
            ELSE Cmd("CS", 1, 0)]
TilingCommands(n) ==
    LET x_spacing == (global_boundaries.x_max - global_boundaries.x_min) \div n
        y_spacing == (global_boundaries.y_max - global_boundaries.y_min) \div n
    IN [k \in 1..(n * n + 2) |->
          IF k <= n * n
            THEN LET i == (k - 1) \div n
                     j == (k - 1) % n
                 IN WcsCmd(i * n + j + 1, x_spacing * j, y_spacing * (n - 1 - i))
            ELSE IF k = n * n + 1 THEN Cmd("G51", Fine(1) \div n, 0)
            ELSE Cmd("CS", 1, 0)]

\* _plotter_set_tiling_clb(grid_size) for a grid size in sizes, while fewer
\* than cap commands were queued.
TilingRequest(sizes, cap) ==
    /\ Yielded
    /\ \E n \in sizes :
          IF TilingReply(n) # "ok"
            THEN UNCHANGED <<gcode_queue, next_id, tiles>>
            ELSE /\ next_id + n * n + 1 <= cap
                 /\ tile_grid_size' = n
                 /\ current_tile_idx' = 1
                 /\ gcode_queue' = AppendAll(gcode_queue, Entries(TilingCommands(n)))
                 /\ next_id' = next_id + n * n + 2
    /\ UNCHANGED <<axes, activated, config, limits, task, frames, penv, hm, mw, flags,
                   speed, disp, session, now>>

TilingClb == TilingRequest(GridInputs, MaxCommands)

\* Bodies of plotter/tiling/switch: no argument (None), the empty body,
\* or an index.
IdxInputs == {None, EmptyBody, 0, 1, 2}

\* Outcome of _plotter_switch_tile_clb(idx).  The empty body b"" is neither
\* converted nor equal to "", and is not in the range: ValueError.
SwitchNeverBusy(idx) ==
    IF idx = None THEN "ok"
    ELSE IF idx \in 0..(tile_grid_size * tile_grid_size) THEN "ok"
    ELSE ValueError
SwitchReply(idx) ==
    IF is_session_in_progress THEN ServerBusyException
    ELSE IF idx = None THEN "ok"
    ELSE IF idx \in 0..(tile_grid_size * tile_grid_size) THEN "ok"
    ELSE ValueError

\* _plotter_switch_tile_clb(idx): the next tile, or tile idx, is made the
\* current one and its select is appended.
SwitchTileRequest(indices, cap) ==
    /\ Yielded
    /\ \E idx \in indices :
          IF SwitchReply(idx) # "ok"
            THEN UNCHANGED <<gcode_queue, next_id, tiles>>
            ELSE /\ next_id <= cap
                 /\ current_tile_idx' =
                       IF idx = None
                         THEN Max((current_tile_idx + 1)
                                    % (tile_grid_size * tile_grid_size + 1), 1)
                         ELSE idx
                 /\ gcode_queue' = QAppend(gcode_queue,
                                           Entry(next_id, Cmd("CS", current_tile_idx', 0)))
                 /\ next_id' = next_id + 1
                 /\ UNCHANGED tile_grid_size
    /\ UNCHANGED <<axes, activated, config, limits, task, frames, penv, hm, mw, flags,
                   speed, disp, session, now>>

SwitchTileClb == SwitchTileRequest(IdxInputs, MaxCommands)

\* The clients of the coordinate system state: every grid size around the
\* accepted range, tile indices around the ranges of the three grids, and
\* G-code lines that name G53: "G53 X1 Y1" (matches no pattern), "G55 X1 Y0"
\* and the select "G53".
GridInputsCs == 0..4
IdxInputsCs == {None, EmptyBody, 0, 1, 2, 9, 10}
BodiesCs == {<<WcsCmd(0, Fine(1), Fine(1))>>, <<WcsCmd(2, Fine(1), 0)>>,
             <<Cmd("CS", 0, 0)>>}

TilingClbCs == TilingRequest(GridInputsCs, MaxCsCommands)
SwitchTileClbCs == SwitchTileRequest(IdxInputsCs, MaxCsCommands)
GcodeClbCs == \E body \in BodiesCs : GcodeRequestUpTo(body, MaxCsCommands)
TilingClbAll == TilingRequest(GridInputsCs, MaxTilingCommands)

\* The other producers while sessions are studied: a select and a move
\* back to the origin posted as G-code, and tile switches.
BodiesPlay == {<<Cmd("CS", 2, 0)>>, <<Cmd("G0", 0, 0)>>}
GcodeClbPlay == \E body \in BodiesPlay : GcodeRequestUpTo(body, MaxPlayCommands)
SwitchTileClbPlay == SwitchTileRequest({None}, MaxPlayCommands)

\* G-code lines for the coordinate transformation: "G91 G1 X1 Y1",
\* "G90 G0 X1 Y0", "G1 X1 Y1", "G91", "G55 X1 Y1", "G55" and "G51 S0.5".
PrefixCmd(prefix, c) == [c EXCEPT !.prefix = prefix]
BodiesGcode == {<<PrefixCmd("G91", Cmd("G1", Fine(1), Fine(1)))>>,
                <<PrefixCmd("G90", Cmd("G0", Fine(1), 0))>>,
                <<Cmd("G1", Fine(1), Fine(1))>>,
                <<PrefixCmd("G91", Cmd("POS", 0, 0))>>,
                <<WcsCmd(2, Fine(1), Fine(1))>>,
                <<Cmd("CS", 2, 0)>>,
                <<Cmd("G51", Fine(1) \div 2, 0)>>}
GcodeClbGcode == \E body \in BodiesGcode : GcodeRequestUpTo(body, MaxGcodeCommands)

\* ------------------------------------------------------- __file_reader
\* Line k of the sketch file (every line is the same drawing move).
SketchLine == Cmd("G1", Fine(1), Fine(1))

\* The reader runs on to its next await, from the top of the loop over the
\* lines of the sketch with left lines to go, in workspace wi of ws: with
\* lines left it waits for room and appends the next line, then sleeps;
\* after the last line it goes to the next workspace, waits for room and
\* appends its select; after the last workspace it appends "M104" and the
\* task ends.  q, id: queue and next id so far.
RECURSIVE ReaderRun(_, _, _, _, _)
ReaderRun(q, id, left, ws, wi) ==
    IF left > 0
      THEN IF Len(q) = max_queue_length
             THEN [q |-> q, id |-> id,
                   s |-> [rpc |-> "r_line_wait", left |-> left, ws |-> ws, wi |-> wi]]
             ELSE [q |-> QAppend(q, Entry(id, SketchLine)), id |-> id + 1,
                   s |-> [rpc |-> "r_line_sleep", left |-> left - 1, ws |-> ws,
                          wi |-> wi]]
    ELSE IF wi = Len(ws)
      THEN [q |-> QAppend(q, Entry(id, Cmd("M104", 0, 0))), id |-> id + 1,
            s |-> NoSession]
    ELSE IF Len(q) = max_queue_length
      THEN [q |-> q, id |-> id,
            s |-> [rpc |-> "r_start", left |-> SketchLen, ws |-> ws, wi |-> wi + 1]]
    ELSE ReaderRun(QAppend(q, Entry(id, Cmd("CS", ws[wi + 1], 0))), id + 1,
                   SketchLen, ws, wi + 1)

ReaderContinue(q, id, left, ws, wi) ==
    /\ gcode_queue' = ReaderRun(q, id, left, ws, wi).q
    /\ next_id' = ReaderRun(q, id, left, ws, wi).id
    /\ session' = ReaderRun(q, id, left, ws, wi).s

\* The task starts, or wakes from waiting for room for a workspace select.
\* At its start an empty list of workspaces becomes [current_cs]; the
\* select of workspace wi is appended when there is room.
ReaderWorkspace ==
    /\ Yielded
    /\ session.rpc = "r_start"
    /\ Len(gcode_queue) < max_queue_length \/ session.ws = <<>>
    /\ LET ws == IF session.ws = <<>> THEN <<current_cs>> ELSE session.ws
       IN IF Len(gcode_queue) = max_queue_length
            THEN /\ session' = [session EXCEPT !.ws = ws]
                 /\ UNCHANGED <<gcode_queue, next_id>>
            ELSE ReaderContinue(QAppend(gcode_queue,
                                        Entry(next_id, Cmd("CS", ws[session.wi], 0))),
                                next_id + 1, SketchLen, ws, session.wi)
    /\ UNCHANGED <<axes, activated, config, limits, task, frames, penv, hm, mw, flags, tiles, speed,
                   disp, now>>

\* Wakes from waiting for room for a line, and there is room.
ReaderLineWait ==
    /\ Yielded
    /\ session.rpc = "r_line_wait"
    /\ Len(gcode_queue) < max_queue_length
    /\ ReaderContinue(gcode_queue, next_id, session.left, session.ws, session.wi)
    /\ UNCHANGED <<axes, activated, config, limits, task, frames, penv, hm, mw, flags, tiles, speed,
                   disp, now>>

\* Wakes from the sleep after a line: next line, next workspace, or the
\* last append.
ReaderLineSleep ==
    /\ Yielded
    /\ session.rpc = "r_line_sleep"
    /\ ReaderContinue(gcode_queue, next_id, session.left, session.ws, session.wi)
    /\ UNCHANGED <<axes, activated, config, limits, task, frames, penv, hm, mw, flags, tiles, speed,
                   disp, now>>

\* time() advances by a whole second while the tasks sleep.
Tick ==
    /\ Yielded
    /\ now < MaxTime
    /\ now' = now + 1
    /\ UNCHANGED <<axes, activated, config, limits, task, frames, penv, hm, mw, queuev,
                   flags, tiles, speed, disp, session>>

\* ------------------------------------------- direct calls of the machine API
\* Coordinates a caller names, and the boundary tuples a caller sets.
Coords == 0..MaxCoord
BoundaryInputs == {<<0, 0, 1, 1>>, <<XMax, 0, 1, YMax>>, <<0, 0, MaxCoord, 1>>}
NoBoundaries == [x_min |-> None, y_min |-> None, x_max |-> None, y_max |-> None]

\* MachineBase.set_user_boundaries(x_min, y_min, x_max, y_max): ValueError
\* when a bound is beyond the global boundary on its own side, else store.
set_user_boundaries(x_min, y_min, x_max, y_max) ==
    IF \/ x_min < global_boundaries.x_min
       \/ y_min < global_boundaries.y_min
       \/ x_max > global_boundaries.x_max
       \/ y_max > global_boundaries.y_max
      THEN user_boundaries
      ELSE [x_min |-> x_min, y_min |-> y_min, x_max |-> x_max, y_max |-> y_max]

\* A caller outside the dispatcher sets the user boundaries; the call is
\* synchronous, so it runs while the stepping task is at an await point.
ApiSetUserBoundaries ==
    /\ pc \in Suspended \cup Ended
    /\ \E b \in BoundaryInputs :
          user_boundaries' = set_user_boundaries(Fine(b[1]), Fine(b[2]),
                                                 Fine(b[3]), Fine(b[4]))
    /\ UNCHANGED <<axes, activated, reject_oob, global_boundaries, max_queue_length, limits, task,
                   frames, sys>>

\* A caller outside the dispatcher awaits move_to(x, y, safe) on an idle
\* machine.
ApiMoveTo ==
    /\ pc = "idle"
    /\ next_id <= MaxCalls
    /\ next_id' = next_id + 1
    /\ \E x \in Coords, y \in Coords, safe \in BOOLEAN :
          mv' = [NoFrameMv EXCEPT !.x = Fine(x), !.y = Fine(y), !.safe = safe]
    /\ pc' = "mv_enter"
    /\ stack' = <<"idle">>
    /\ UNCHANGED <<axes, activated, config, limits, ctx, exc, st, mvh, penv, hm, mw,
                   gcode_queue, flags, tiles, speed, disp, session, now>>

\* ------------------------------------------------------------ environment
\* Labels at which the task reads a limit switch pin.
LimitReaders == {"mv_loop", "home_check", "home1_test", "home1_p", "home1_s",
                 "home2_test", "home2_p", "home2_s", "mwf_test", "mwf_p",
                 "mwf_s", "mwb_test", "mwb_p", "mwb_s"}

\* A limit switch closes or opens.  A change during code that does not read
\* the pins is the same as a change just before that code.
SetLimit ==
    /\ pc \in Suspended \cup Ended \cup LimitReaders
    /\ \E p \in 0..1, s \in 0..1 :
          /\ <<p, s>> # <<primary_limit_pin, secondary_limit_pin>>
          /\ primary_limit_pin' = p
          /\ secondary_limit_pin' = s
    /\ UNCHANGED <<axes, activated, config, task, frames, sys>>

\* The exception raised by a direct call reaches its caller.
UnwindApi ==
    /\ pc = "raise"
    /\ ctx = "api"
    /\ pc' = "idle"
    /\ stack' = <<>>
    /\ exc' = "none"
    /\ st' = NoFrameSt
    /\ mv' = NoFrameMv
    /\ mvh' = NoHistMv
    /\ UNCHANGED <<axes, activated, config, limits, ctx, sys>>

InitMachine ==
    /\ current_pos_primary = 0
    /\ current_pos_secondary = 0
    /\ current_step_primary = 1
    /\ current_step_secondary = 1
    /\ dir_primary = None
    /\ dir_secondary = None
    /\ primary_pins = AllPinsOff
    /\ secondary_pins = AllPinsOff
    /\ activated = TRUE
    /\ user_boundaries = NoBoundaries
    /\ reject_oob \in BOOLEAN
    /\ global_boundaries = ConfiguredBoundaries
    /\ max_queue_length = MaxQueueLength
    /\ primary_limit_pin = 0
    /\ secondary_limit_pin = 0
    /\ st = NoFrameSt
    /\ mv = NoFrameMv
    /\ mvh = NoHistMv
    /\ pen = NoFramePen
    /\ hm = NoFrameHm
    /\ mw = NoFrameMw
    /\ primary_speed_controller = SpeedController(step_delay_ms_rapid, step_delay_ms_init)
    /\ secondary_speed_controller = SpeedController(step_delay_ms_rapid, step_delay_ms_init)
    /\ sf = NoFrameSf
    /\ gcode_queue = <<>>
    /\ machine_paused = FALSE
    /\ paused = FALSE
    /\ additional_info = <<>>
    /\ servo_duty = MinPenDuty
    /\ current_cs = 0
    /\ cs_coordinates = [k \in CsNames |-> <<0, 0>>]
    /\ cs_scaling = Fine(1)
    /\ positioning = POS_ABSOLUTE
    /\ tile_grid_size = 3
    /\ current_tile_idx = 0
    /\ last_command_ts = 0
    /\ command = NoCommand
    /\ session = NoSession
    /\ now = 0
    /\ next_id = 1
    /\ exc = "none"

\* The machine right after construction, driven by direct API calls.
InitMove ==
    /\ InitMachine
    /\ pc = "idle"
    /\ stack = <<>>
    /\ ctx = "api"

\* The machine right after construction, with the dispatcher task created.
Init ==
    /\ InitMachine
    /\ pc = "start"
    /\ stack = <<>>
    /\ ctx = "startup"

Next ==
    \/ StepEnter \/ StepBacklash \/ StepBacklashWake \/ StepRegular
    \/ MoveEnter \/ MoveLoop \/ MoveStepX \/ MoveStepXDone \/ MoveStepY
    \/ MoveStepYDone \/ MoveControl \/ MoveWake \/ MoveReturn
    \/ PenEnter \/ PenWake
    \/ HomeEnter \/ HomeCheck \/ Home1Test \/ Home1Primary \/ Home1Secondary
    \/ Home1Wake \/ Home2Test \/ Home2Primary \/ Home2Secondary \/ Home2Inc
    \/ Home2Wake \/ HomeDone
    \/ ControlStart \/ UnwindStartup \/ ControlInit \/ ControlTimeout
    \/ ControlDispatch \/ ControlWake \/ UnwindLoop
    \/ RunGcode \/ RunToolChangeDone \/ RunMove \/ RunEject
    \/ GcodeClb \/ (\E v \in PauseValues : PauseClb(v)) \/ StopClb \/ PlayClb
    \/ TestClb \/ TilingClb \/ SwitchTileClb
    \/ ReaderWorkspace \/ ReaderLineWait \/ ReaderLineSleep
    \/ SetLimit \/ Tick

Spec == Init /\ [][Next]_vars

\* The machine when the dispatcher enters its main loop after the shortest
\* successful startup homing: one backward step per axis onto the switches,
\* one backlash transition and one forward step per axis off them, pen
\* raised, counters zeroed.
InitLoop(capacity) ==
    /\ current_pos_primary = 0
    /\ current_pos_secondary = 0
    /\ current_step_primary = 2
    /\ current_step_secondary = 2
    /\ dir_primary = DirValue(FALSE)
    /\ dir_secondary = DirValue(FALSE)
    /\ primary_pins = PinValues(2)
    /\ secondary_pins = PinValues(2)
    /\ activated = TRUE
    /\ user_boundaries = NoBoundaries
    /\ reject_oob \in BOOLEAN
    /\ global_boundaries = ConfiguredBoundaries
    /\ max_queue_length = capacity
    /\ primary_limit_pin = 0
    /\ secondary_limit_pin = 0
    /\ st = NoFrameSt
    /\ mv = NoFrameMv
    /\ mvh = NoHistMv
    /\ pen = NoFramePen
    /\ hm = NoFrameHm
    /\ mw = NoFrameMw
    /\ primary_speed_controller = SpeedController(step_delay_ms_rapid, step_delay_ms_init)
    /\ secondary_speed_controller = SpeedController(step_delay_ms_rapid, step_delay_ms_init)
    /\ sf = NoFrameSf
    /\ gcode_queue = <<>>
    /\ machine_paused = FALSE
    /\ paused = FALSE
    /\ additional_info = <<>>
    /\ servo_duty = MaxPenDuty
    /\ current_cs = 0
    /\ cs_coordinates = [k \in CsNames |-> <<0, 0>>]
    /\ cs_scaling = Fine(1)
    /\ positioning = POS_ABSOLUTE
    /\ tile_grid_size = 3
    /\ current_tile_idx = 0
    /\ last_command_ts = 0
    /\ command = NoCommand
    /\ session = NoSession
    /\ now = 0
    /\ next_id = 1
    /\ exc = "none"
    /\ pc = "ctl_top"
    /\ stack = <<>>
    /\ ctx = "loop"

InitRun == InitLoop(MaxQueueLength)

NextRun ==
    \/ StepEnter \/ StepBacklash \/ StepBacklashWake \/ StepRegular
    \/ MoveEnter \/ MoveLoop \/ MoveStepX \/ MoveStepXDone \/ MoveStepY
    \/ MoveStepYDone \/ MoveControl \/ MoveWake \/ MoveReturn
    \/ PenEnter \/ PenWake
    \/ ControlTimeout \/ ControlDispatch \/ ControlWake \/ UnwindLoop
    \/ RunGcode \/ RunToolChangeDone \/ RunMove \/ RunEject
    \/ GcodeClbRun \/ (\E v \in PauseValues : PauseClb(v)) \/ StopClb \/ PlayClb
    \/ ReaderWorkspace \/ ReaderLineWait \/ ReaderLineSleep
    \/ SetLimit \/ Tick

SpecRun == InitRun /\ [][NextRun]_vars

\* The dispatcher in its main loop with every queue producer of the HTTP
\* interface; the limit switches stay open.
NextQueue ==
    \/ StepEnter \/ StepBacklash \/ StepBacklashWake \/ StepRegular
    \/ MoveEnter \/ MoveLoop \/ MoveStepX \/ MoveStepXDone \/ MoveStepY
    \/ MoveStepYDone \/ MoveControl \/ MoveWake \/ MoveReturn
    \/ PenEnter \/ PenWake
    \/ ControlTimeout \/ ControlDispatch \/ ControlWake \/ UnwindLoop
    \/ RunGcode \/ RunToolChangeDone \/ RunMove \/ RunEject
    \/ GcodeClbRun \/ (\E v \in PauseValues : PauseClb(v)) \/ StopClb \/ PlayClb
    \/ TestClb \/ TilingClb \/ SwitchTileClb
    \/ ReaderWorkspace \/ ReaderLineWait \/ ReaderLineSleep
    \/ Tick

SpecQueue == InitRun /\ [][NextQueue]_vars

\* The dispatcher in its main loop with a client that posts motion
\* commands with and without positioning prefixes, and coordinate system
\* commands; the limit switches stay open.
NextGcode ==
    \/ StepEnter \/ StepBacklash \/ StepBacklashWake \/ StepRegular
    \/ MoveEnter \/ MoveLoop \/ MoveStepX \/ MoveStepXDone \/ MoveStepY
    \/ MoveStepYDone \/ MoveControl \/ MoveWake \/ MoveReturn
    \/ PenEnter \/ PenWake
    \/ ControlTimeout \/ ControlDispatch \/ ControlWake \/ UnwindLoop
    \/ RunGcode \/ RunMove
    \/ GcodeClbGcode

SpecGcode == InitRun /\ [][NextGcode]_vars

\* The dispatcher in its main loop with clients that play the sketch in
\* workspaces, post G-code and switch tiles; the limit switches stay open.
NextPlay ==
    \/ StepEnter \/ StepBacklash \/ StepBacklashWake \/ StepRegular
    \/ MoveEnter \/ MoveLoop \/ MoveStepX \/ MoveStepXDone \/ MoveStepY
    \/ MoveStepYDone \/ MoveControl \/ MoveWake \/ MoveReturn
    \/ PenEnter \/ PenWake
    \/ ControlTimeout \/ ControlDispatch \/ ControlWake
    \/ RunGcode \/ RunMove \/ RunEject
    \/ GcodeClbPlay \/ PlayClbWs \/ SwitchTileClbPlay
    \/ ReaderWorkspace \/ ReaderLineWait \/ ReaderLineSleep
    \/ Tick

SpecPlay == InitRun /\ [][NextPlay]_vars

\* The dispatcher in its main loop with the clients of the coordinate
\* systems: tiling, tile switch and G-code that sets and selects them.
NextCs ==
    \/ ControlTimeout \/ ControlDispatch \/ ControlWake \/ RunGcode
    \/ GcodeClbCs \/ TilingClbCs \/ SwitchTileClbCs

SpecCs == InitLoop(CsQueueLength) /\ [][NextCs]_vars

\* The dispatcher in its main loop with a client that only posts tiling
\* requests; the queue holds the commands of a 3 x 3 grid.
NextTiling ==
    \/ ControlTimeout \/ ControlDispatch \/ ControlWake \/ RunGcode
    \/ TilingClbAll

SpecTiling == InitLoop(CsQueueLength) /\ [][NextTiling]_vars

\* The dispatcher from its creation: startup homing, then the main loop
\* with a client that queues G28 and a drawing move; the limit switches
\* close and open at any time.
NextHome ==
    \/ StepEnter \/ StepBacklash \/ StepBacklashWake \/ StepRegular
    \/ MoveEnter \/ MoveLoop \/ MoveStepX \/ MoveStepXDone \/ MoveStepY
    \/ MoveStepYDone \/ MoveControl \/ MoveWake \/ MoveReturn
    \/ PenEnter \/ PenWake
    \/ HomeEnter \/ HomeCheck \/ Home1Test \/ Home1Primary \/ Home1Secondary
    \/ Home1Wake \/ Home2Test \/ Home2Primary \/ Home2Secondary \/ Home2Inc
    \/ Home2Wake \/ HomeDone
    \/ ControlStart \/ UnwindStartup \/ ControlInit \/ ControlTimeout
    \/ ControlDispatch \/ ControlWake \/ UnwindLoop
    \/ RunGcode \/ RunMove
    \/ GcodeClbHome \/ SetLimit

SpecHome == Init /\ [][NextHome]_vars

\* The dispatcher in its main loop with a client that queues M100 or a drawing
\* move and a caller that sets the user boundaries; the limit switches close and open
\* at any time.
BodiesMeasure == {<<Cmd("M100", 0, 0)>>, <<Cmd("G1", Fine(1), Fine(1))>>}
GcodeClbMeasure ==
    \E body \in BodiesMeasure : GcodeRequestUpTo(body, MaxMeasureCommands)

NextMeasure ==
    \/ StepEnter \/ StepBacklash \/ StepBacklashWake \/ StepRegular
    \/ MoveEnter \/ MoveLoop \/ MoveStepX \/ MoveStepXDone \/ MoveStepY
    \/ MoveStepYDone \/ MoveControl \/ MoveWake \/ MoveReturn
    \/ PenEnter \/ PenWake
    \/ HomeEnter \/ HomeCheck \/ Home1Test \/ Home1Primary \/ Home1Secondary
    \/ Home1Wake \/ Home2Test \/ Home2Primary \/ Home2Secondary \/ Home2Inc
    \/ Home2Wake \/ HomeDone
    \/ MeasureEnter \/ MeasureMove \/ MeasureInit \/ MeasureFwdTest
    \/ MeasureFwdPrimary \/ MeasureFwdSecondary \/ MeasureFwdWake
    \/ MeasureBwdTest \/ MeasureBwdPrimary \/ MeasureBwdSecondary
    \/ MeasureBwdWake \/ MeasureAssign \/ MeasureReturn
    \/ ControlTimeout \/ ControlDispatch \/ ControlWake \/ UnwindLoop
    \/ RunGcode \/ RunMove
    \/ GcodeClbMeasure \/ ApiSetUserBoundaries \/ SetLimit

SpecMeasure == InitRun /\ [][NextMeasure]_vars

\* The dispatcher in its main loop, running, never paused and with the
\* limit switches open, with a client that queues a move and starts a
\* file session, under the scheduling of uasyncio: the dispatcher task
\* goes on whenever it can, and the file reader, which polls in its own
\* sleeps, runs again whenever the dispatcher is at an await point often
\* enough.
BodiesLive == {<<Cmd("G0", Fine(1), 0)>>}
GcodeClbLive == \E body \in BodiesLive : GcodeRequestUpTo(body, MaxCommands)

DispatcherStep ==
    \/ StepEnter \/ StepBacklash \/ StepBacklashWake \/ StepRegular
    \/ MoveEnter \/ MoveLoop \/ MoveStepX \/ MoveStepXDone \/ MoveStepY
    \/ MoveStepYDone \/ MoveControl \/ MoveWake \/ MoveReturn
    \/ PenEnter \/ PenWake
    \/ ControlTimeout \/ ControlDispatch \/ ControlWake
    \/ RunGcode \/ RunMove \/ RunEject

ReaderStep == ReaderWorkspace \/ ReaderLineWait \/ ReaderLineSleep

NextLive == DispatcherStep \/ ReaderStep \/ GcodeClbLive \/ PlayClb \/ Tick

SpecLive ==
    InitRun /\ [][NextLive]_vars /\ WF_vars(DispatcherStep) /\ SF_vars(ReaderStep)

NextMove ==
    \/ StepEnter \/ StepBacklash \/ StepBacklashWake \/ StepRegular
    \/ MoveEnter \/ MoveLoop \/ MoveStepX \/ MoveStepXDone \/ MoveStepY
    \/ MoveStepYDone \/ MoveControl \/ MoveWake \/ MoveReturn
    \/ UnwindApi \/ ApiMoveTo \/ ApiSetUserBoundaries \/ SetLimit

SpecMove == InitMove /\ [][NextMove]_vars

\* The speed controllers of a constructed machine under every sequence of
\* moves.
NextSpeed ==
    \/ SpeedMoveTo \/ SpeedIterate \/ SpeedReturn \/ SpeedRaise
    \/ SpeedUpdateRaise \/ SpeedScopeEnter \/ SpeedScopeIterate \/ SpeedScopeLeave

SpecSpeed == InitMove /\ [][NextSpeed]_vars

\* ============================================================ properties
Phases == {1, 2, 4, 8}

\* Position counters, coil phases and last directions of both axes.
motion == <<current_pos_primary, current_pos_secondary, current_step_primary,
            current_step_secondary, dir_primary, dir_secondary>>

LimitAsserted == primary_limit_pin = 1 \/ secondary_limit_pin = 1

\* C1: (a) a safe move_to of the dispatcher that finds a limit switch
\* asserted at the start of a loop iteration raises LimitSwitchException and
\* issues no step; (b) the exception goes straight to the dispatcher's
\* handler, which appends the diagnostic, writes 0 to all eight coil pins,
\* clears activated and exits; (c) once the dispatcher has exited it stays
\* exited, no command is taken from the queue, no position, phase or
\* direction changes and activated stays false, whatever the callbacks, the
\* file reader, the switches and the clock do.
C1_LimitFaultTerminal ==
    [][/\ (pc = "mv_loop" /\ pc' # pc /\ ctx = "loop" /\ mv.safe /\ LimitAsserted
             /\ (mv.remaining_x > 0 \/ mv.remaining_y > 0)) =>
            (pc' = "raise" /\ exc' = LimitSwitchException /\ UNCHANGED motion)
       /\ (pc = "raise" /\ ctx = "loop" /\ exc = LimitSwitchException /\ pc' # pc) =>
            /\ pc' = "exited"
            /\ additional_info' = Append(additional_info, <<now, LimitSwitchException>>)
            /\ ~activated'
            /\ primary_pins' = AllPinsOff
            /\ secondary_pins' = AllPinsOff
            /\ UNCHANGED <<motion, command>>
       /\ pc = "exited" =>
            /\ pc' = "exited"
            /\ ~activated /\ ~activated'
            /\ primary_pins' = AllPinsOff
            /\ secondary_pins' = AllPinsOff
            /\ UNCHANGED <<motion, command, last_command_ts>>]_vars

\* The dispatcher has exited in the middle of a move (one primary step
\* issued) while a later command is still waiting in the queue.
C1_Witness ==
    /\ pc = "exited"
    /\ current_pos_primary = 1
    /\ gcode_queue # <<>>
    /\ Len(additional_info) = 1
    /\ additional_info[1][2] = LimitSwitchException
    /\ ~activated

\* The ids in the queue increase from head to tail and are all larger than
\* the id of the command last taken.
QueueOrdered ==
    /\ \A i \in 1..Len(gcode_queue) : gcode_queue[i].id > command.id
    /\ \A i, j \in 1..Len(gcode_queue) :
          i < j => gcode_queue[i].id < gcode_queue[j].id

\* C2: commands are taken in the order of their appends.  A command is
\* taken only by the dispatcher at its dispatch point, with no command
\* running (empty call stack); it is the head of the queue, the rest of the
\* queue is left as it was, and its id is larger than the id of every
\* command taken before; meanwhile every command still queued was appended
\* after the one last taken and the queue holds them in append order.
C2_Fifo ==
    /\ []QueueOrdered
    /\ [][command' # command =>
            /\ pc = "ctl_disp"
            /\ stack = <<>>
            /\ gcode_queue # <<>>
            /\ command' = Head(gcode_queue)
            /\ gcode_queue' = Tail(gcode_queue)
            /\ command'.id > command.id]_vars

\* The third appended command is being taken while the fourth waits, after
\* the first two were taken.
C2_Witness ==
    /\ pc = "run_gcode"
    /\ command.id = 3
    /\ Len(gcode_queue) = 1
    /\ gcode_queue[1].id = 4


\* C3: a move_to that completes normally has issued exactly |dx| primary and
\* |dy| secondary regular steps (n_p, n_s; backlash transitions are not
\* counted), and the position counters have changed by exactly the signed
\* (dx, dy) that get_step_differential returned at entry; with both
\* differentials 0 no step was issued.
C3_ExactSteps ==
    pc = "mv_ret" =>
        /\ mvh.n_p = Abs(mvh.dx)
        /\ mvh.n_s = Abs(mvh.dy)
        /\ current_pos_primary = mvh.pos_p + mvh.dx
        /\ current_pos_secondary = mvh.pos_s + mvh.dy

\* A completed diagonal move backward on the primary axis and forward on
\* the secondary axis, with different step counts.
C3_Witness ==
    /\ pc = "mv_ret"
    /\ mvh.dx < -1
    /\ mvh.dy = 1
    /\ mvh.n_p = Abs(mvh.dx)
    /\ mvh.n_s = 1

\* C4: the coil phase of each axis is one of 1, 2, 4, 8 in every state,
\* hence after every step call and after every backlash transition.
C4_PhaseOneHot ==
    /\ current_step_primary \in Phases
    /\ current_step_secondary \in Phases

\* A backlash transition has just wrapped the primary phase from 1 to 8, and
\* a forward regular step has wrapped the secondary phase from 8 to 1.
C4_Witness ==
    /\ pc = "step_bl_sleep"
    /\ st.axis = "p"
    /\ st.bw
    /\ current_step_primary = 8
    /\ current_pos_secondary = 4
    /\ current_step_secondary = 1

\* C5: when a safe move_to is entered with reject_oob = false, no error is
\* raised, additional_info is unchanged, and the target handed to
\* get_step_differential lies inside the global boundaries and inside the
\* user boundaries when all four are set.
C5_ClampedInside ==
    [][(pc = "mv_enter" /\ pc' # "mv_enter" /\ mv.safe /\ ~reject_oob) =>
          /\ pc' # "raise"
          /\ additional_info' = additional_info
          /\ ~out_of_global_boundaries(mv'.x, mv'.y)
          /\ ~out_of_user_boundaries(mv'.x, mv'.y)]_vars
\* The target lies outside the global boundaries or outside fully set user
\* boundaries (written out from the boundary values).
OutOfBounds(x, y) ==
    \/ x < 0 \/ y < 0 \/ x > Fine(XMax) \/ y > Fine(YMax)
    \/ /\ UserBoundariesSet
       /\ \/ x < user_boundaries.x_min \/ x > user_boundaries.x_max
          \/ y < user_boundaries.y_min \/ y > user_boundaries.y_max

\* C6: with reject_oob = true, (a) from the moment the dispatcher takes a
\* motion command with an out-of-bounds target until it takes the next
\* command, no position counter, coil phase or last direction changes;
\* (b) its move_to raises ValueError at entry; (c) the dispatcher's handler
\* appends the error to additional_info and goes back to the top of the
\* loop with the queue untouched.
C6_RejectOob ==
    [][/\ (reject_oob /\ ctx = "loop" /\ command.op \in {"G0", "G1"}
             /\ OutOfBounds(command.x, command.y) /\ command' = command) =>
            UNCHANGED motion
       /\ (pc = "mv_enter" /\ pc' # pc /\ ctx = "loop" /\ reject_oob /\ mv.safe
             /\ OutOfBounds(mv.x, mv.y)) =>
            (pc' = "raise" /\ exc' = ValueError)
       /\ (pc = "raise" /\ pc' # pc /\ ctx = "loop" /\ exc = ValueError) =>
            /\ pc' = "ctl_top"
            /\ additional_info' = Append(additional_info, <<now, ValueError>>)
            /\ gcode_queue' = gcode_queue]_vars

\* The out-of-bounds command (id 1) was rejected at position 0 and logged,
\* and the next command is now stepping.
C6_Witness ==
    /\ reject_oob
    /\ Len(additional_info) = 1
    /\ additional_info[1][2] = ValueError
    /\ command.id = 2
    /\ command.op = "G1"
    /\ pc = "step_do"
    /\ current_pos_primary = 0

IsPrefix(q, r) == Len(q) <= Len(r) /\ SubSeq(r, 1, Len(q)) = q

\* C8: in every step taken while machine_paused is true no command is taken
\* from the queue, and the queue is emptied (stop) or keeps all its
\* commands in place and at most gains commands at its tail, never
\* exceeding max_queue_length.
C8_PausedQueueOnlyGrows ==
    [][machine_paused =>
          /\ command' = command
          /\ gcode_queue' = <<>> \/ IsPrefix(gcode_queue, gcode_queue')
          /\ Len(gcode_queue') <= MaxQueueLength]_vars

\* C9: (a) when the tool change returns machine_paused is true; (b) while
\* it is true no command is taken; (c) no step of the dispatcher clears it;
\* (d) the pause callback called with "false" and the stop callback clear it.
C9_PausedUntilCleared ==
    [][/\ (pc = "rg_m6" /\ pc' # pc) => machine_paused'
       /\ machine_paused => command' = command
       /\ (machine_paused /\ ~machine_paused') => (Yielded /\ pc' = pc)
       /\ (PauseClb("false") \/ StopClb) => ~machine_paused']_vars

\* C10: the stop callback leaves no file session, an empty queue and
\* machine_paused = false.
C10_StopClears ==
    [][StopClb => (session' = NoSession /\ gcode_queue' = <<>> /\ ~machine_paused')]_vars

\* C11: in every reachable state, under every interleaving of the
\* dispatcher, the file reader and the HTTP callbacks, the queue holds at
\* most max_queue_length commands.
C11_QueueBounded == Len(gcode_queue) <= MaxQueueLength

\* More commands were appended since the last dequeue than the queue holds,
\* and the queue is full.
C11_Witness ==
    /\ Len(gcode_queue) = MaxQueueLength
    /\ next_id - 1 - command.id > MaxQueueLength
    /\ gcode_queue[Len(gcode_queue)].id = next_id - 1

\* C12: every step that appends commands starts in a state with room for
\* all of them and leaves the commands already queued in place.
C12_AppendOnlyWithRoom ==
    [][next_id' # next_id =>
         /\ Len(gcode_queue) + (next_id' - next_id) <= MaxQueueLength
         /\ IsPrefix(gcode_queue, gcode_queue')]_vars

C15_IdleTimeout ==
    [][(pc = "ctl_top" /\ pc' # pc /\ activated
          /\ now - last_command_ts > ActiveTimeout) =>
         /\ ~activated'
         /\ \A i \in 0..(NPins - 1) : primary_pins'[i] = 0 /\ secondary_pins'[i] = 0
         /\ (session # NoSession /\ session' = NoSession)
               <=> (~machine_paused /\ session # NoSession)
         /\ session' \in {session, NoSession}]_vars

\* The tick has just deenergized the coils and cancelled a session that was
\* waiting for room: the workspace select is the last command appended.
C15_Witness ==
    /\ pc = "ctl_disp"
    /\ ~activated
    /\ now - last_command_ts > ActiveTimeout
    /\ session = NoSession
    /\ gcode_queue # <<>>
    /\ gcode_queue[Len(gcode_queue)].op = "CS"
    /\ gcode_queue[Len(gcode_queue)].id = next_id - 1

\* C16: during the startup home_cycle no axis has moved before the limit
\* check; a limit switch asserted at that check raises LimitSwitchException
\* with the axes untouched; the startup handler appends the diagnostic and
\* the task goes on into its main loop.
C16_StartupFaultNotTerminal ==
    /\ []((ctx = "startup" /\ pc \in {"start", "home_enter", "pen_enter",
                                       "pen_sleep", "home_check"}) =>
             motion = <<0, 0, 1, 1, None, None>>)
    /\ [][(ctx = "startup" /\ pc = "home_check" /\ pc' # pc /\ LimitAsserted) =>
             /\ pc' = "raise"
             /\ exc' = LimitSwitchException
             /\ motion' = motion]_vars
    /\ [][(ctx = "startup" /\ pc = "raise" /\ exc = LimitSwitchException) =>
             /\ additional_info' =
                   Append(additional_info, <<now, LimitSwitchException>>)
             /\ pc' = "ctl_init"
             /\ UNCHANGED <<motion, gcode_queue, activated>>]_vars
    /\ [][pc = "ctl_init" => (pc' = "ctl_top" /\ ctx' = "loop")]_vars

\* After a startup fault the main loop is stepping a queued drawing move.
C16_Witness ==
    /\ ctx = "loop"
    /\ additional_info # <<>>
    /\ additional_info[1][2] = LimitSwitchException
    /\ command.op = "G1"
    /\ pc = "mv_sleep"
    /\ current_pos_primary > 0

\* C17: a homing cycle run for a queued G28 that finds a limit switch
\* asserted at its check, or still asserted after more than
\* steps_per_revolution back-off iterations, raises LimitSwitchException,
\* and the exception of a G28 ends the dispatcher with the coils off.
C17_HomingFaultTerminal ==
    /\ [][(ctx = "loop" /\ pc = "home_check" /\ pc' # pc /\ LimitAsserted) =>
             (pc' = "raise" /\ exc' = LimitSwitchException)]_vars
    /\ [][(ctx = "loop" /\ pc = "home2_test" /\ pc' # pc /\ LimitAsserted
              /\ hm.offset_steps > StepsPerRevolution) =>
             (pc' = "raise" /\ exc' = LimitSwitchException)]_vars
    /\ [][(ctx = "loop" /\ pc = "raise" /\ command.op = "G28") =>
             /\ pc' = "exited"
             /\ ~activated'
             /\ primary_pins' = AllPinsOff
             /\ secondary_pins' = AllPinsOff]_vars

\* Index of a one-hot phase value, and the phase k transitions further
\* (forward for k > 0, backward for k < 0).
PhaseIndex(ph) == CHOOSE i \in 0..(NPins - 1) : 2 ^ i = ph
Rot(ph, k) == 2 ^ ((PhaseIndex(ph) + k + NPins * (BacklashStepsPrimary
                      + BacklashStepsSecondary + 1)) % NPins)

\* Backlash transitions a call is due: backlash_steps when it is not zero
\* and the requested direction is opposite to the last direction dir0.
ExtraTransitions(axis, bw, dir0) ==
    IF BacklashSteps(axis) > 0 /\ dir0 # None /\ dir0 # DirValue(bw)
      THEN BacklashSteps(axis) ELSE 0

\* C18: a step call makes exactly the due backlash transitions, in the new
\* direction and with the position counter and last direction untouched,
\* and then one transition that moves the counter by +1 or -1 and records
\* the direction.
C18_Backlash ==
    /\ [][pc = "step_enter" =>
             st'.bl = ExtraTransitions(st.axis, st.bw, DirOf(st.axis))]_vars
    /\ [](pc \in {"step_bl", "step_bl_sleep", "step_do"} =>
            LET k == ExtraTransitions(st.axis, st.bw, st.dir0) - st.bl
                sign == IF st.bw THEN -1 ELSE 1
            IN /\ k >= 0
               /\ DirOf(st.axis) = st.dir0
               /\ IF st.axis = "p"
                    THEN /\ current_step_primary = Rot(st.ph0, sign * k)
                         /\ current_pos_primary = st.pos0
                    ELSE /\ current_step_secondary = Rot(st.ph0, sign * k)
                         /\ current_pos_secondary = st.pos0)
    /\ [][pc = "step_do" =>
             LET k == ExtraTransitions(st.axis, st.bw, st.dir0)
                 sign == IF st.bw THEN -1 ELSE 1
             IN /\ st.bl = 0
                /\ IF st.axis = "p"
                     THEN /\ current_step_primary' = Rot(st.ph0, sign * (k + 1))
                          /\ current_pos_primary' = st.pos0 + sign
                          /\ dir_primary' = DirValue(st.bw)
                     ELSE /\ current_step_secondary' = Rot(st.ph0, sign * (k + 1))
                          /\ current_pos_secondary' = st.pos0 + sign
                          /\ dir_secondary' = DirValue(st.bw)]_vars

\* A backward step of the secondary axis after a forward one has made its
\* backlash transition and is about to make the regular one.
C18_Witness ==
    /\ pc = "step_do"
    /\ st.axis = "s"
    /\ st.bw
    /\ st.dir0 = dir_forward
    /\ current_step_secondary = Rot(st.ph0, -BacklashStepsSecondary)
    /\ current_step_secondary # st.ph0

\* Distance of the steps made so far in the current move_to from the ideal
\* line, measured along the minor axis and multiplied by the length of the
\* major axis; MajorLength is one step on that scale.
MinorDeviation ==
    IF Abs(mvh.dx) >= Abs(mvh.dy)
      THEN Abs(mvh.n_s * Abs(mvh.dx) - mvh.n_p * Abs(mvh.dy))
      ELSE Abs(mvh.n_p * Abs(mvh.dy) - mvh.n_s * Abs(mvh.dx))
MajorLength == Max(Abs(mvh.dx), Abs(mvh.dy))

\* C19: during a move_to from (0,0) to (dx, dy) with dx, dy >= 0, the steps
\* made so far are never more than one step away from the ideal line in
\* the minor axis, at any point of the trajectory.
C19_BresenhamDeviation ==
    (mvh.pos_p = 0 /\ mvh.pos_s = 0 /\ mvh.dx >= 0 /\ mvh.dy >= 0)
        => MinorDeviation <= MajorLength

\* target_delay <= current_delay <= max(init_delay, junction_delay) for
\* controller c under the junction factor of the running move.
SpeedInRange(c) ==
    /\ c.target_delay_ms <= c.current_delay_ms
    /\ c.current_delay_ms <= Max(c.init_delay_ms, junction_delay_ms(c, sf.jf))

\* C20: after every update_speed call of a move, both persistent
\* controllers have target_delay <= current_delay <= max(init_delay,
\* junction_delay), whatever moves came before.
C20_DelayInRange ==
    (sf.active /\ sf.updated) =>
        /\ SpeedInRange(primary_speed_controller)
        /\ SpeedInRange(secondary_speed_controller)

\* C21: cs_coordinates has exactly the ten identifiers G53, G54 .. G59.3
\* at all times and G53 maps to (0,0): no queued command and no callback
\* changes the offset of G53 or the set of identifiers.
C21_MachineCsFixed ==
    /\ DOMAIN cs_coordinates = CsNames
    /\ Cardinality(CsNames) = 10
    /\ cs_coordinates[0] = <<0, 0>>

\* The line "G53 X1 Y1" has been taken and run while a tiling moved the
\* offset of another coordinate system.
C21_Witness ==
    /\ pc = "ctl_sleep"
    /\ command.op = "WCS"
    /\ command.cs = 0
    /\ \E k \in CsNames : cs_coordinates[k] # <<0, 0>>

\* C23: every change of current_tile_idx by a tiling or tile-switch call that
\* returns ok leaves it within 1..tile_grid_size^2 and appends the select of
\* that tile, which is never G53, as the last queued command.
C23_SwitchTileInRange ==
    [][current_tile_idx' # current_tile_idx =>
          /\ current_tile_idx' \in 1..(tile_grid_size' * tile_grid_size')
          /\ gcode_queue' # <<>>
          /\ gcode_queue'[Len(gcode_queue')]
                = Entry(next_id' - 1, Cmd("CS", current_tile_idx', 0))]_vars

\* Offset of the tile in row i, column j of an n x n grid, times n.
TileOffsetTimesN(n, i, j) == <<Fine(XMax) * j, Fine(YMax) * (n - 1 - i)>>

\* The last n * n + 2 entries of queue q, numbered from id base, are the
\* commands of an n x n tiling in order.
TilingBlock(q, n, base) ==
    LET first == Len(q) - (n * n + 2)
    IN /\ first >= 0
       /\ \A i \in 0..(n - 1) : \A j \in 0..(n - 1) :
             LET e == q[first + i * n + j + 1]
             IN /\ e.id = base + i * n + j
                /\ e.op = "WCS" /\ e.cs = i * n + j + 1 /\ e.prefix = ""
                /\ <<e.x * n, e.y * n>> = TileOffsetTimesN(n, i, j)
       /\ LET e == q[first + n * n + 1]
          IN e.id = base + n * n /\ e.op = "G51" /\ e.x * n = Fine(1)
       /\ LET e == q[Len(q)]
          IN e.id = base + n * n + 1 /\ e.op = "CS" /\ e.x = 1

\* The dispatcher has run the last command queued so far.
TilingRun == pc = "ctl_sleep" /\ next_id > 1 /\ command.id = next_id - 1

SessionWorkspaces(s) == IF s.ws = <<>> THEN <<current_cs>> ELSE s.ws

\* Command number m of a session over workspaces ws: for each workspace its
\* select and the lines of the sketch, then M104.
SessionCommand(ws, m) ==
    IF m = Len(ws) * (SketchLen + 1) + 1 THEN Cmd("M104", 0, 0)
    ELSE IF (m - 1) % (SketchLen + 1) = 0
      THEN Cmd("CS", ws[(m - 1) \div (SketchLen + 1) + 1], 0)
    ELSE SketchLine

\* Commands session s has appended so far.
SessionSent(s) ==
    IF s.rpc = "r_start" THEN (s.wi - 1) * (SketchLen + 1)
    ELSE (s.wi - 1) * (SketchLen + 1) + 1 + (SketchLen - s.left)

\* C22: while a file session is in progress, every command appended to the
\* queue is the next command of the session's sequence (for each workspace
\* in order, or for the current coordinate system when none was supplied,
\* the select and then every line of the sketch), the list of workspaces
\* does not change, and the session ends by appending M104 as the last
\* command of the sequence or by being killed without appending.
C22_SessionSequence ==
    [][session.rpc # "none" =>
         LET ws == SessionWorkspaces(session)
             a == SessionSent(session)
             b == IF session'.rpc = "none"
                    THEN IF next_id' = next_id THEN a
                         ELSE Len(ws) * (SketchLen + 1) + 1
                    ELSE SessionSent(session')
         IN /\ next_id' - next_id = b - a
            /\ session'.rpc # "none" => session'.ws \in {ws, session.ws}
            /\ Len(gcode_queue') >= Min(b - a, max_queue_length)
            /\ \A m \in (a + 1)..b :
                  Len(gcode_queue') - (b - m) >= 1 =>
                    gcode_queue'[Len(gcode_queue') - (b - m)]
                      = Entry(next_id + (m - a - 1), SessionCommand(ws, m))]_vars

\* A session over tiles 2 and 1, the first commands queued at all, has put
\* its last line and M104 in the queue and ended.
C22_Witness ==
    /\ session.rpc = "none"
    /\ Len(gcode_queue) = 2
    /\ gcode_queue[1] = Entry(2 * (SketchLen + 1), SketchLine)
    /\ gcode_queue[2] = Entry(2 * (SketchLen + 1) + 1, Cmd("M104", 0, 0))
    /\ current_cs = 1

\* C25: a controller's _running flag is true exactly while a scope using it
\* is open: the two persistent controllers during move_to, the controller
\* of position_pen or of a routine during its own scope; after the scope is
\* left by return, by a limit switch fault or by any other error, a
\* failing update() included, it is false on every controller acquired.
C25_RunningInScope ==
    /\ primary_speed_controller.running = (sf.active /\ ~sf.local)
    /\ secondary_speed_controller.running = (sf.active /\ ~sf.local)
    /\ sf.ctrl.running = (sf.active /\ sf.local)

\* move_to has been left by a failing update(): the rejected delays are in
\* the primary controller and no controller is running.
C25_Witness ==
    /\ ~sf.active
    /\ primary_speed_controller.init_delay_ms
          <= primary_speed_controller.target_delay_ms
    /\ ~primary_speed_controller.running
    /\ ~secondary_speed_controller.running
    /\ primary_speed_controller.current_delay_ms # step_delay_ms_init

\* The queue is not empty and its head is a motion command of the mode of
\* the command being run.
NextIsSameMotion ==
    /\ gcode_queue # <<>>
    /\ Head(gcode_queue).op \in {"G0", "G1"}
    /\ Head(gcode_queue).op = command.op

\* C26: the junction factor passed to move_to is 0 when the queue is empty,
\* when its head is not a motion command and when its head is a motion of
\* the other mode; it is above 0 only when the head is a motion command of
\* the same mode.
C26_JunctionFactor ==
    [][(pc = "rg_move" /\ pc' # "rg_move" /\ ~NextIsSameMotion)
          => mv'.junction_factor = JfZero]_vars

\* The controller that times the running move: the primary one when
\* dx >= dy, else the secondary one.
DominantController ==
    IF sf.dx >= sf.dy THEN primary_speed_controller ELSE secondary_speed_controller

\* The loop of the running move has ended: move_to is about to return.
MoveCompletes ==
    sf.active /\ ~sf.local /\ sf.updated /\ sf.remaining_x = 0 /\ sf.remaining_y = 0

\* C27: when move_to completes with junction factor j, the delay of the
\* controller of the dominant axis is not below the junction delay
\* target + (init - target) * (1 - j); with j = 0 the move ends at the
\* initial delay, whatever the delay at its start and however short it is.
C27_EndsAtJunctionDelay ==
    MoveCompletes =>
        DominantController.current_delay_ms
            >= junction_delay_ms(DominantController, sf.jf)

\* The positioning mode in force for the command being run: the one its
\* G90 / G91 prefix sets, else the mode before it.
ModeInForce(before) ==
    IF command.prefix = "G90" THEN POS_ABSOLUTE
    ELSE IF command.prefix = "G91" THEN POS_RELATIVE
    ELSE before

\* t is coordinate c scaled by cs_scaling and added to base (all in units
\* of 1 / CoordDen).
ScaledFrom(t, base, c) == t * CoordDen = base * CoordDen + c * cs_scaling

\* p is the Cartesian coordinate of step counter pos.
CartesianOf(p, pos) == p * StepsPerRevolution = pos * Fine(UnitPerRevolution)

\* C28: the target run_gcode gives to move_to for "X x Y y" is the offset
\* of the current coordinate system plus the scaled coordinates in
\* absolute mode, and the current position plus the scaled coordinates in
\* relative mode, the mode being the one in force after a G90 / G91 prefix
\* of the same command.
C28_Transformation ==
    /\ [][pc = "run_gcode" => positioning' = ModeInForce(positioning)]_vars
    /\ [][(pc = "rg_move" /\ pc' # "rg_move") =>
            /\ positioning = ModeInForce(positioning)
            /\ positioning = POS_ABSOLUTE =>
                  /\ ScaledFrom(mv'.x, cs_coordinates[current_cs][1], command.x)
                  /\ ScaledFrom(mv'.y, cs_coordinates[current_cs][2], command.y)
            /\ positioning = POS_RELATIVE =>
                  \E px, py \in 0..Fine(PosBound) :
                     /\ CartesianOf(px, current_pos_primary)
                     /\ CartesianOf(py, current_pos_secondary)
                     /\ ScaledFrom(mv'.x, px, command.x)
                     /\ ScaledFrom(mv'.y, py, command.y)]_vars

\* "G91 G1 X1 Y1" is being moved to with scale 1/2, G55 at (1,1) selected
\* and the axes away from the origin.
C28_Witness ==
    /\ pc = "mv_enter" /\ command.prefix = "G91" /\ command.op = "G1"
    /\ positioning = POS_RELATIVE
    /\ cs_scaling = Fine(1) \div 2
    /\ current_cs = 2 /\ cs_coordinates[2] = <<Fine(1), Fine(1)>>

\* The dispatcher starts running a dequeued command in this step: the
\* coils are energized, deenergized coils get the stored phases written to
\* their pins (bit i of the phase on pin i), energized coils keep their
\* pins, and last_command_ts is the time of the dequeue.
StartsCommandEnergized ==
    [][(pc = "ctl_disp" /\ pc' = "run_gcode") =>
         /\ gcode_queue # <<>> /\ command'.id = Head(gcode_queue).id
         /\ activated'
         /\ last_command_ts' = now
         /\ IF activated
              THEN primary_pins' = primary_pins /\ secondary_pins' = secondary_pins
              ELSE \A i \in 0..(NPins - 1) :
                     /\ primary_pins'[i] = (current_step_primary \div (2 ^ i)) % 2
                     /\ secondary_pins'[i] = (current_step_secondary \div (2 ^ i)) % 2]_vars

\* The tick finds the queue empty or the machine paused.
IdleTick == gcode_queue = <<>> \/ machine_paused

\* C29 as stated: the dispatcher starts every dequeued command with the
\* coils energized and last_command_ts set to the dequeue time, and a tick
\* with an empty queue or in the paused state changes neither activated
\* nor last_command_ts.
C29_IdleTickChangesNothing ==
    /\ StartsCommandEnergized
    /\ [][(pc \in {"ctl_top", "ctl_disp"} /\ IdleTick) =>
            activated' = activated /\ last_command_ts' = last_command_ts]_vars

\* C29, amended: the dispatcher starts every dequeued command with the
\* coils energized and last_command_ts set to the dequeue time; a tick
\* with an empty queue or in the paused state never changes
\* last_command_ts, and changes activated only by deenergizing the coils
\* at the idle timeout at the top of the tick.
C29_DispatchEnergizes ==
    /\ StartsCommandEnergized
    /\ [][(pc = "ctl_disp" /\ IdleTick) =>
            activated' = activated /\ last_command_ts' = last_command_ts]_vars
    /\ [][(pc = "ctl_top" /\ IdleTick) =>
            /\ last_command_ts' = last_command_ts
            /\ activated' # activated =>
                  activated /\ now - last_command_ts > ActiveTimeout]_vars

\* A command is being started at a later second, after the primary axis
\* has stepped: the coils are energized with its phase on the pins.
C29_Witness ==
    /\ pc = "run_gcode" /\ activated /\ last_command_ts = now /\ now > 0
    /\ current_step_primary # 1
    /\ \A i \in 0..(NPins - 1) :
          primary_pins[i] = (current_step_primary \div (2 ^ i)) % 2

\* A step function called from phase 1 of home_cycle is running.
InPhaseOneStep == stack # <<>> /\ Head(stack) \in {"home1_s", "home1_sleep"}

\* C30: when home_cycle returns, neither limit switch is asserted and both
\* position counters are 0; in phase 1 an axis is stepped, backward, in an
\* iteration exactly when it is not home (its limit asserted with last
\* direction backward), and phase 1 ends only when both axes are home.
C30_HomeCycle ==
    /\ [][(pc = "home_done" /\ pc' # pc) =>
            /\ primary_limit_pin' = 0 /\ secondary_limit_pin' = 0
            /\ current_pos_primary' = 0 /\ current_pos_secondary' = 0]_vars
    /\ [][(pc = "home1_p" /\ pc' # pc) =>
            ((pc' = "step_enter" /\ st'.axis = "p" /\ st'.bw)
               <=> ~(primary_limit_pin = 1 /\ dir_primary = dir_backward))]_vars
    /\ [][(pc = "home1_s" /\ pc' # pc) =>
            ((pc' = "step_enter" /\ st'.axis = "s" /\ st'.bw)
               <=> ~(secondary_limit_pin = 1 /\ dir_secondary = dir_backward))]_vars
    /\ [][InPhaseOneStep =>
            /\ current_pos_primary' <= current_pos_primary
            /\ current_pos_secondary' <= current_pos_secondary]_vars
    /\ [][(pc # "home2_test" /\ pc' = "home2_test") =>
            \/ pc = "home2_sleep"
            \/ /\ pc = "home1_test"
               /\ primary_limit_pin = 1 /\ dir_primary = dir_backward
               /\ secondary_limit_pin = 1 /\ dir_secondary = dir_backward]_vars

\* A G28 homing cycle has returned to the dispatcher: both axes backed off
\* forward, the switches are open and the counters are 0.
C30_Witness ==
    /\ pc = "ctl_sleep" /\ command.op = "G28"
    /\ current_pos_primary = 0 /\ current_pos_secondary = 0
    /\ primary_limit_pin = 0 /\ secondary_limit_pin = 0
    /\ dir_primary = dir_forward /\ dir_secondary = dir_forward

\* C31 -- Phase 2 of home_cycle performs at most steps_per_revolution
\* back-off iterations: an iteration (the loop test finding a limit switch
\* asserted and going on to the step calls) starts only while fewer than
\* steps_per_revolution iterations have been completed; when the ValueError
\* is raised exactly steps_per_revolution iterations were done, and raising
\* it leaves the position counters as they are.
C31_BackOffBounded ==
    [][/\ (pc = "home2_test" /\ pc' = "home2_p")
            => hm.offset_steps < StepsPerRevolution
       /\ (pc = "home2_test" /\ pc' = "raise")
            => /\ hm.offset_steps = StepsPerRevolution
               /\ current_pos_primary' = current_pos_primary
               /\ current_pos_secondary' = current_pos_secondary]_vars

\* C32 -- In every move_to loop iteration both step decisions are issued
\* before the task suspends and the iteration suspends once, in control():
\* while a step called by move_to's loop is in progress (between the loop
\* test and the speed update) the task is never at an await point, so the
\* only await point of the loop is the sleep of control().
C32_IterationSuspendsOnce == InMove => pc \notin Suspended

\* C33 -- In position_pen every change of the servo duty is by exactly 1
\* toward target_duty, the remaining_steps given to update_speed after a
\* write is the non-negative distance |target_duty - duty| still to go,
\* when raising and when lowering, the routine returns with the duty equal
\* to target_duty, and a target outside 0..100 raises ValueError with the
\* duty untouched.
PenWrites == pc' = "pen_sleep" /\ pc \in {"pen_enter", "pen_sleep"}

C33_PenRamp ==
    [][/\ PenWrites =>
            /\ servo_duty' # servo_duty =>
                   Abs(pen'.target_duty - servo_duty')
                       = Abs(pen'.target_duty - servo_duty) - 1
            /\ pen'.remaining_steps = Abs(pen'.target_duty - servo_duty')
       /\ (pc \in {"pen_enter", "pen_sleep"} /\ pc' \notin {"pen_sleep", "raise"})
            => servo_duty' = TargetDuty(pen.target)
       /\ (pc = "pen_enter" /\ pen.target \notin 0..100)
            => pc' = "raise" /\ exc' = ValueError /\ servo_duty' = servo_duty]_vars

\* C34 -- measure_workspace assigns to global x_max (y_max) the counted
\* steps converted to length units, steps / steps_per_revolution *
\* unit_per_revolution, and the step count it converts equals the axis
\* position counter at that point.
C34_MeasuredBoundaries ==
    [][pc = "mw_assign" =>
          /\ mw.actual_steps_primary = current_pos_primary
          /\ mw.actual_steps_secondary = current_pos_secondary
          /\ global_boundaries'.x_max * StepsPerRevolution
                = mw.actual_steps_primary * Fine(UnitPerRevolution)
          /\ global_boundaries'.y_max * StepsPerRevolution
                = mw.actual_steps_secondary * Fine(UnitPerRevolution)]_vars

\* C35 -- After any sequence of set_user_boundaries calls and workspace
\* measurements, whenever all four user boundaries are set they lie within
\* the current global boundaries, and global x_min <= x_max, y_min <= y_max;
\* a set_user_boundaries call with a bound outside the globals leaves
\* user_boundaries unchanged.
GlobalOrdered ==
    /\ global_boundaries.x_min <= global_boundaries.x_max
    /\ global_boundaries.y_min <= global_boundaries.y_max

WithinGlobal(b) ==
    /\ b.x_min >= global_boundaries.x_min /\ b.x_min <= global_boundaries.x_max
    /\ b.x_max >= global_boundaries.x_min /\ b.x_max <= global_boundaries.x_max
    /\ b.y_min >= global_boundaries.y_min /\ b.y_min <= global_boundaries.y_max
    /\ b.y_max >= global_boundaries.y_min /\ b.y_max <= global_boundaries.y_max

C35_UserWithinGlobal ==
    /\ [](GlobalOrdered /\ (UserBoundariesSet => WithinGlobal(user_boundaries)))
    /\ [][user_boundaries' # user_boundaries => WithinGlobal(user_boundaries')]_vars

\* C36 -- For step counts |dx|, |dy| not both zero every iteration of
\* move_to's loop steps the dominant axis (primary when |dx| >= |dy|,
\* otherwise secondary), hence issues at least one step: after k completed
\* iterations the dominant axis has made exactly k regular steps, and a
\* move that completes has made exactly max(|dx|, |dy|) iterations.
DominantSteps == IF Abs(mvh.dx) >= Abs(mvh.dy) THEN mvh.n_p ELSE mvh.n_s

C36_DominantEveryIteration ==
    /\ pc \in {"mv_sleep", "mv_loop", "mv_ret"} => DominantSteps = mvh.n_it
    /\ pc = "mv_ret" => mvh.n_it = Max(Abs(mvh.dx), Abs(mvh.dy))

\* A completed move of three iterations whose dominant axis is the
\* secondary one, with a single primary step.
C36_Witness ==
    /\ pc = "mv_ret"
    /\ Abs(mvh.dy) = 3
    /\ Abs(mvh.dx) = 1
    /\ mvh.n_it = 3
    /\ mvh.n_p = 1

\* C37 -- The dispatcher cancels a file session only when the plotter is
\* really idle: never while commands are waiting in gcode_queue, and the
\* timeout counts from the end of the last executed command, i.e. when
\* the execution of a command returns to the dispatcher the time stamp the
\* timeout is measured from is the current time.
DispatcherKills ==
    pc = "ctl_top" /\ pc' # pc /\ session # NoSession /\ session' = NoSession

CommandEnds ==
    /\ ctx = "loop"
    /\ pc' = "ctl_sleep"
    /\ pc \notin {"ctl_sleep", "ctl_disp", "pen_enter", "pen_sleep"}

C37_KillOnlyWhenIdle ==
    [][/\ DispatcherKills => gcode_queue = <<>>
       /\ CommandEnds => last_command_ts' = now']_vars

\* C38 -- Every update_speed call changes current_delay_ms by at most
\* acceleration_step_ms in absolute value, for the two persistent
\* controllers of move_to and for the controller position_pen or a routine
\* creates for its own loop.
DelayJump(c, d) == Abs(d.current_delay_ms - c.current_delay_ms)

C38_OneAccelerationStep ==
    [][(sf.active /\ sf'.active) =>
          /\ DelayJump(primary_speed_controller, primary_speed_controller')
                <= primary_speed_controller.acceleration_step_ms
          /\ DelayJump(secondary_speed_controller, secondary_speed_controller')
                <= secondary_speed_controller.acceleration_step_ms
          /\ DelayJump(sf.ctrl, sf'.ctrl) <= sf.ctrl.acceleration_step_ms]_vars

\* C39 -- While activated is false all eight coil pins are 0: deactivate
\* writes 0 to every pin and changes neither the stored phases, the
\* position counters nor the last directions, and no step or backlash
\* transition writes a coil pattern while the coils are deenergized.
PinsAllZero ==
    \A i \in 0..(NPins - 1) : primary_pins[i] = 0 /\ secondary_pins[i] = 0

C39_DeenergizedPinsZero ==
    /\ [](~activated => PinsAllZero)
    /\ [][(activated /\ ~activated') =>
            /\ current_step_primary' = current_step_primary
            /\ current_step_secondary' = current_step_secondary
            /\ current_pos_primary' = current_pos_primary
            /\ current_pos_secondary' = current_pos_secondary
            /\ dir_primary' = dir_primary
            /\ dir_secondary' = dir_secondary]_vars
    /\ [][(~activated /\ ~activated') =>
            /\ primary_pins' = primary_pins
            /\ secondary_pins' = secondary_pins
            /\ current_step_primary' = current_step_primary
            /\ current_step_secondary' = current_step_secondary]_vars

\* The coils were deenergized by the idle timeout after the primary axis
\* had stepped, and the dispatcher goes on with its tick.
C39_Witness ==
    /\ ~activated
    /\ pc = "ctl_disp"
    /\ current_pos_primary > 0
    /\ current_step_primary # 2
    /\ PinsAllZero

\* The coils were deenergized by the limit-fault exit in the middle of a
\* move.
C39_WitnessFault ==
    /\ ~activated
    /\ pc = "exited"
    /\ current_pos_primary > 0
    /\ PinsAllZero

\* C40 -- Under fair scheduling, with the dispatcher running and never
\* paused and every command terminating: a file reader waiting for room
\* for a line eventually appends it, every queued command is eventually
\* dequeued, and a file session eventually appends its final M104 and
\* ends.
ReaderWaits == session.rpc = "r_line_wait"
ReaderAppended == session.rpc = "r_line_sleep"
Queued(k) == \E i \in DOMAIN gcode_queue : gcode_queue[i].id = k
SessionEnded ==
    /\ session = NoSession
    /\ gcode_queue # <<>>
    /\ gcode_queue[Len(gcode_queue)].op = "M104"
    /\ gcode_queue[Len(gcode_queue)].id = next_id - 1

C40_SessionCompletes ==
    /\ ReaderWaits ~> ReaderAppended
    /\ \A k \in 1..MaxCommands : Queued(k) ~> (command.id = k)
    /\ (session # NoSession) ~> SessionEnded

====
